---------------------------- MODULE Spec2Model ----------------------------
(***************************************************************************)
(* Chunkwise-parallel linear attention: the retention variant              *)
(* (fla/ops/retention/chunk.py) and the delta-rule variant                 *)
(* (fla/ops/delta_rule/chunk.py).                                          *)
(*                                                                         *)
(* One behaviour is one driver call (forward, then backward) seen from one *)
(* batch-head lane i_bh of the kernel grids: every kernel addresses its    *)
(* tensors at i_bh * stride and touches no other lane, so the tensors of   *)
(* the model are that lane's slices.  Kernels whose grid has no time axis  *)
(* (the state engines) advance one chunk per step; kernels whose grid has  *)
(* a time axis (output and gradient engines) run one task per step, in any *)
(* order.                                                                  *)
(*                                                                         *)
(* Arithmetic.  The kernels compute in floating point; rounding is not     *)
(* modelled.  Every exact value the kernels compute is a rational whose    *)
(* denominator is a power of two (the data are integers, the decay rate is *)
(* 1 - 2^(-5-h)), or the inverse of a decay power that only ever meets a   *)
(* zero-padded row.  Reduction modulo the odd prime P is a ring            *)
(* homomorphism on those, so an equation between exact values holds in the *)
(* model, and an inequality in the model is an inequality of exact values. *)
(* Tensors are tuples of rows; the code's indices are 0-based and so are   *)
(* the parameters of the operators below (the tuples are 1-based).         *)
(***************************************************************************)
EXTENDS Integers, Sequences, FiniteSets, TLC

VARIABLES
    \* the call: variant, shapes, flags
    variant, T, K, V, H, i_bh, BT, scale, output_final_state, checkpoint_level,
    capability,
    \* the call's tensors (one batch-head lane)
    q, k, v, beta, initial_state, do, dht,
    \* driver position, state-engine lanes, tasks of the running grid
    pc, lanes, pending,
    \* forward buffers
    w, u, A, h, v_new, final_state, o,
    \* what forward() saved for backward()
    ctx,
    \* backward buffers
    dv, dh, dh0, dv2, dq, dk, dw, dv_out, db,
    \* driver-call validation (SpecDrv)
    d_call, d_pc, d_launched, d_written, d_error,
    \* kernel grids at full tile sizes (SpecGrid): the host call, the position in
    \* the engine, the launch arguments of each host function, the programs of
    \* the current grid not yet run, and the blocks loaded and stored so far
    g_call, g_pc, g_dims, g_pending, g_acc,
    \* decay rate derivation in float32 (SpecRate)
    r_call, r_rate

callvars == <<variant, T, K, V, H, i_bh, BT, scale, output_final_state, checkpoint_level,
             capability>>
invars   == <<q, k, v, beta, initial_state, do, dht>>
fwdbufs  == <<w, u, A, h, v_new, final_state, o>>
bwdbufs  == <<dv, dh, dh0, dv2, dq, dk, dw, dv_out, db>>
drvvars  == <<d_call, d_pc, d_launched, d_written, d_error>>
gridvars == <<g_call, g_pc, g_dims, g_pending, g_acc>>
ratevars == <<r_call, r_rate>>
\* what the numeric machine leaves alone
sidevars == <<drvvars, gridvars, ratevars>>
vars     == <<callvars, invars, pc, lanes, pending, fwdbufs, ctx, bwdbufs, sidevars>>

-----------------------------------------------------------------------------
(* Bounds of the model. *)

\* longest sequence
MaxT == 3
\* number of input patterns
NSeeds == 2

\* chunk sizes a call is made with
ChunkSizes == {1, 2, 4}
\* feature dimensions <<K, V>>
Shapes == {<<2, 1>>, <<1, 2>>}
\* <<H, i_bh>>: number of heads and the flattened batch-head index of the lane
Lanes == {<<1, 1>>, <<2, 1>>}

\* Python's None; no tensor of the model is empty
None == <<>>
\* no assertion failed
NoError == "NoError"

-----------------------------------------------------------------------------
(* The field of the arithmetic. *)

P == 32768 - 19

Add(a, b) == (a + b) % P
Sub(a, b) == (a - b) % P
Mul(a, b) == (a * b) % P
Neg(a) == (0 - a) % P

RECURSIVE FPow(_, _)
FPow(a, n) ==
    IF n = 0 THEN 1
    ELSE LET r == FPow(a, n \div 2)
             s == Mul(r, r)
         IN  IF n % 2 = 1 THEN Mul(s, a) ELSE s

\* the inverse of a # 0
FInv(a) == CHOOSE x \in 1 .. P - 1 : Mul(x, a) = 1
Half == (P + 1) \div 2

-----------------------------------------------------------------------------
(* Tensors: blocks, block pointers, tl.dot. *)

Min(a, b) == IF a <= b THEN a ELSE b
Max(a, b) == IF a >= b THEN a ELSE b
Cdiv(a, b) == (a + b - 1) \div b

RECURSIVE NextPow2From(_, _)
NextPow2From(p, n) == IF p >= n THEN p ELSE NextPow2From(2 * p, n)
NextPow2(n) == NextPow2From(1, n)

\* e, once the value x it reads has been computed
Then(x, e) == CASE x = x -> e

\* rows x cols block with entry (i, j) = F(i, j), 0-based
Vec(n, F(_)) == [i \in 1..n |-> F(i - 1)] \o <<>>
Mat(r, c, F(_, _)) == [i \in 1..r |-> [j \in 1..c |-> F(i - 1, j - 1)] \o <<>>] \o <<>>
Zeros(r, c) == Mat(r, c, LAMBDA i, j : 0)
At(M, i, j) == M[i + 1][j + 1]
Rows(M) == Len(M)
Cols(M) == IF Len(M) = 0 THEN 0 ELSE Len(M[1])

RECURSIVE SumSeq(_)
SumSeq(s) == IF s = <<>> THEN 0 ELSE Add(Head(s), SumSeq(Tail(s)))

\* tl.dot(a, b): a is n x m, b is m x p
Dot(a, b) ==
    Then(<<a, b>>, Mat(Rows(a), Cols(b), LAMBDA i, j :
                       SumSeq(Vec(Cols(a), LAMBDA l : Mul(At(a, i, l), At(b, l, j))))))
Trans(a) == Then(a, Mat(Cols(a), Rows(a), LAMBDA i, j : At(a, j, i)))
MAdd(a, b) == Then(<<a, b>>, Mat(Rows(a), Cols(a), LAMBDA i, j : Add(At(a, i, j), At(b, i, j))))
MSub(a, b) == Then(<<a, b>>, Mat(Rows(a), Cols(a), LAMBDA i, j : Sub(At(a, i, j), At(b, i, j))))
MHad(a, b) == Then(<<a, b>>, Mat(Rows(a), Cols(a), LAMBDA i, j : Mul(At(a, i, j), At(b, i, j))))
MScale(c, a) == Then(a, Mat(Rows(a), Cols(a), LAMBDA i, j : Mul(c, At(a, i, j))))
MNeg(a) == Then(a, Mat(Rows(a), Cols(a), LAMBDA i, j : Neg(At(a, i, j))))
\* a * d[:, None]: row i of a times d(i)
RowScale(a, d(_)) == Then(a, Mat(Rows(a), Cols(a), LAMBDA i, j : Mul(At(a, i, j), d(i))))

\* tl.load(make_block_ptr(base + row0 * C, (R, C), (C, 1), (r0, c0), (BR, BC), (1, 0)),
\*         boundary_check=(0, 1)): rows beyond R and columns beyond C read as zero
Ld(M, row0, R, C, r0, c0, BR, BC) ==
    Then(M, Mat(BR, BC, LAMBDA i, j :
                IF r0 + i < R /\ c0 + j < C THEN At(M, row0 + r0 + i, c0 + j) ELSE 0))

\* the same tensor through a transposed block pointer:
\* make_block_ptr(base, (C, R), (1, C), (c0, r0), (BC, BR), (0, 1))
LdT(M, C, R, c0, r0, BC, BR) ==
    Then(M, Mat(BC, BR, LAMBDA j, i :
                IF r0 + i < R /\ c0 + j < C THEN At(M, r0 + i, c0 + j) ELSE 0))

\* tl.store(make_block_ptr(base + row0 * C, (R, C), (C, 1), (r0, c0), (BR, BC), (1, 0)),
\*          b, boundary_check=(0, 1)): elements beyond R or C are not written
St(M, row0, R, C, r0, c0, BR, BC, b) ==
    Then(<<M, b>>, Mat(Rows(M), Cols(M), LAMBDA i, j :
                IF /\ i >= row0 + r0 /\ i < row0 + r0 + BR /\ i - row0 < R
                   /\ j >= c0 /\ j < c0 + BC /\ j < C
                THEN At(b, i - row0 - r0, j - c0)
                ELSE At(M, i, j)))

\* tensor.new_empty / torch.empty_like: every cell uninitialised
Uninit == 0 - 1
Empty(r, c) == Mat(r, c, LAMBDA i, j : Uninit)


-----------------------------------------------------------------------------
(* Retention: the decay.                                                   *)

\* 1 - tl.math.exp2(-5 - i_h * 1.0): the decay rate of head i_h
Rate(i_h) == Sub(1, FPow(Half, 5 + i_h))

\* tl.math.exp2(n * b_b) with b_b = tl.math.log2(1 - tl.math.exp2(-5 - i_h))
Exp2bOf(i_h, n) ==
    IF n >= 0 THEN FPow(Rate(i_h), n) ELSE FPow(FInv(Rate(i_h)), 0 - n)

\* the values of Exp2bOf for heads 0 .. MaxHeads - 1 and exponents
\* -MaxShift .. MaxShift, computed once
MaxHeads == 2
MaxShift == 5
Exp2bTable ==
    [i_h \in 0 .. MaxHeads - 1 |->
        [n \in (0 - MaxShift) .. MaxShift |-> Exp2bOf(i_h, n)] @@ <<>>] @@ <<>>

Exp2b(i_h, n) ==
    IF i_h < MaxHeads /\ n >= 0 - MaxShift /\ n <= MaxShift
    THEN Exp2bTable[i_h][n]
    ELSE Exp2bOf(i_h, n)

-----------------------------------------------------------------------------
(* Retention: tile selection of the host functions.                        *)

RetTile == 64

\* a retention host function that never splits K
RetDims_one_tile(T_, K_, V_, H_, ibh, BT_, sc) ==
    LET bk == NextPow2(K_)
        bv == Min(RetTile, NextPow2(V_))
    IN  [T |-> T_, K |-> K_, V |-> V_, H |-> H_, i_bh |-> ibh, BT |-> BT_,
         scale |-> sc, BK |-> bk, BV |-> bv,
         NT |-> Cdiv(T_, BT_), NK |-> Cdiv(K_, bk), NV |-> Cdiv(V_, bv)]

\* the constexpr arguments and grid sizes a retention host function passes:
\* BK, BV = min(64, next_power_of_2(K)), min(64, next_power_of_2(V)) and
\* NT, NK, NV = cdiv(T, BT), cdiv(K, BK), cdiv(V, BV)
RetDims(T_, K_, V_, H_, ibh, BT_, sc) ==
    LET bk == Min(RetTile, NextPow2(K_))
        bv == Min(RetTile, NextPow2(V_))
    IN  [T |-> T_, K |-> K_, V |-> V_, H |-> H_, i_bh |-> ibh, BT |-> BT_,
         scale |-> sc, BK |-> bk, BV |-> bv,
         NT |-> Cdiv(T_, BT_), NK |-> Cdiv(K_, bk), NV |-> Cdiv(V_, bv)]

\* the (i_k, i_v) programs of a state-engine grid (NK, NV, B * H), one lane each
Tiles(D) == (0 .. D.NK - 1) \X (0 .. D.NV - 1)
\* the (i_v, i_t) programs of an output-engine grid (NV, NT, B * H)
TasksVT(D) == (0 .. D.NV - 1) \X (0 .. D.NT - 1)
\* the (i_k, i_t) programs of a gradient-engine grid (NK, NT, B * H)
TasksKT(D) == (0 .. D.NK - 1) \X (0 .. D.NT - 1)

RECURSIVE MSumSeq(_, _)
MSumSeq(acc, s) == IF s = <<>> THEN acc ELSE MSumSeq(MAdd(acc, Head(s)), Tail(s))

-----------------------------------------------------------------------------
(* chunk_retention_fwd_kernel_h, program (i_k, i_v, i_bh).                 *)

\* b_h before the loop with the initial state left out
chunk_retention_fwd_kernel_h_init_zero(h0, D, i_k, i_v) == Zeros(D.BK, D.BV)

\* b_h before the loop: zeros, or the h0 tile when USE_INITIAL_STATE
chunk_retention_fwd_kernel_h_init(h0, D, i_k, i_v) ==
    IF h0 # None
    THEN Ld(h0, 0, D.K, D.V, i_k * D.BK, i_v * D.BV, D.BK, D.BV)
    ELSE Zeros(D.BK, D.BV)

\* the snapshot stored one chunk late
chunk_retention_fwd_kernel_h_store_late(h_, b_h, i_t, D, i_k, i_v) ==
    St(h_, (i_t - 1) * D.K, D.K, D.V, i_k * D.BK, i_v * D.BV, D.BK, D.BV, b_h)

\* tl.store(p_h, b_h): the snapshot of iteration i_t
chunk_retention_fwd_kernel_h_store(h_, b_h, i_t, D, i_k, i_v) ==
    St(h_, i_t * D.K, D.K, D.V, i_k * D.BK, i_v * D.BV, D.BK, D.BV, b_h)

\* the decay length without the partial-chunk case
chunk_retention_fwd_kernel_h_len_full(i_t, D) == D.BT

\* the length the decay of iteration i_t is taken over: BT, or T % BT in a
\* partial last chunk
chunk_retention_fwd_kernel_h_len(i_t, D) ==
    IF i_t = D.NT - 1 /\ (D.T % D.BT) # 0 THEN D.T % D.BT ELSE D.BT

\* the update without the decay of the running state
chunk_retention_fwd_kernel_h_update_undecayed(b_h, i_t, k_, v_, D, i_k, i_v) ==
    LET i_h == D.i_bh % D.H
        len == chunk_retention_fwd_kernel_h_len(i_t, D)
        d_i(o_i) == Exp2b(i_h, len - o_i - 1)
        b_k == LdT(k_, D.K, D.T, i_k * D.BK, i_t * D.BT, D.BK, D.BT)
        b_v == Ld(v_, 0, D.T, D.V, i_t * D.BT, i_v * D.BV, D.BT, D.BV)
    IN  Then(<<b_k, b_v>>, MAdd(b_h, Dot(b_k, RowScale(b_v, d_i))))

\* b_h after iteration i_t: d_b * b_h + dot(b_k, b_v * d_i[:, None])
chunk_retention_fwd_kernel_h_update(b_h, i_t, k_, v_, D, i_k, i_v) ==
    LET i_h == D.i_bh % D.H
        len == chunk_retention_fwd_kernel_h_len(i_t, D)
        d_b == Exp2b(i_h, len)
        d_i(o_i) == Exp2b(i_h, len - o_i - 1)
        b_k == LdT(k_, D.K, D.T, i_k * D.BK, i_t * D.BT, D.BK, D.BT)
        b_v == Ld(v_, 0, D.T, D.V, i_t * D.BT, i_v * D.BV, D.BT, D.BV)
    IN  Then(<<b_k, b_v>>, MAdd(MScale(d_b, b_h), Dot(b_k, RowScale(b_v, d_i))))

\* tl.store(p_ht, b_h) when STORE_FINAL_STATE
chunk_retention_fwd_kernel_h_final(ht, b_h, D, i_k, i_v) ==
    IF ht # None
    THEN St(ht, 0, D.K, D.V, i_k * D.BK, i_v * D.BV, D.BK, D.BV, b_h)
    ELSE ht

-----------------------------------------------------------------------------
(* chunk_retention_fwd_kernel_o, program (i_v, i_t, i_bh).                 *)

chunk_retention_fwd_kernel_o(q_, k_, v_, h_, o_, D, i_v, i_t) ==
    LET i_h == D.i_bh % D.H
        d_i(o_i) == Exp2b(i_h, o_i + 1)
        d_s == Mat(D.BT, D.BT, LAMBDA i, j : IF i >= j THEN Exp2b(i_h, i - j) ELSE 0)
        b_q(i_k) == Ld(q_, 0, D.T, D.K, i_t * D.BT, i_k * D.BK, D.BT, D.BK)
        b_k(i_k) == LdT(k_, D.K, D.T, i_k * D.BK, i_t * D.BT, D.BK, D.BT)
        b_h(i_k) == Ld(h_, i_t * D.K, D.K, D.V, i_k * D.BK, i_v * D.BV, D.BK, D.BV)
        nk == Cdiv(D.K, D.BK)
        b_o1 == MSumSeq(Zeros(D.BT, D.BV), Vec(nk, LAMBDA i_k : Dot(b_q(i_k), b_h(i_k))))
        b_s1 == MSumSeq(Zeros(D.BT, D.BT), Vec(nk, LAMBDA i_k : Dot(b_q(i_k), b_k(i_k))))
        b_o2 == RowScale(b_o1, d_i)
        b_s == MHad(b_s1, d_s)
        b_v == Ld(v_, 0, D.T, D.V, i_t * D.BT, i_v * D.BV, D.BT, D.BV)
        b_o == MScale(D.scale, MAdd(b_o2, Dot(b_s, b_v)))
    IN  Then(<<d_s, b_o1, b_s1, b_o2, b_s, b_v, b_o>>,
             St(o_, 0, D.T, D.V, i_t * D.BT, i_v * D.BV, D.BT, D.BV, b_o))

-----------------------------------------------------------------------------
(* The host functions of the retention forward pass, run to completion.    *)

\* a state-engine lane from iteration i_t on: <<h, b_h>> after the loop
RECURSIVE RetFwdHLoop(_, _, _, _, _, _, _, _)
RetFwdHLoop(h_, b_h, i_t, k_, v_, D, i_k, i_v) ==
    IF i_t >= D.NT THEN <<h_, b_h>>
    ELSE LET stored == chunk_retention_fwd_kernel_h_store(h_, b_h, i_t, D, i_k, i_v)
             b_h1 == chunk_retention_fwd_kernel_h_update(b_h, i_t, k_, v_, D, i_k, i_v)
         IN  Then(<<stored, b_h1>>,
                  RetFwdHLoop(stored, b_h1, i_t + 1, k_, v_, D, i_k, i_v))

\* the lanes of a grid one after the other (they write disjoint tiles)
RECURSIVE RetFwdHGrid(_, _, _, _, _, _, _)
RetFwdHGrid(h_, ht, tiles, k_, v_, h0, D) ==
    IF tiles = {} THEN [h |-> h_, final_state |-> ht]
    ELSE LET tile == CHOOSE x \in tiles : TRUE
             r == RetFwdHLoop(h_, chunk_retention_fwd_kernel_h_init(h0, D, tile[1], tile[2]),
                              0, k_, v_, D, tile[1], tile[2])
         IN  Then(r, RetFwdHGrid(r[1],
                                 chunk_retention_fwd_kernel_h_final(ht, r[2], D, tile[1], tile[2]),
                                 tiles \ {tile}, k_, v_, h0, D))

\* chunk_fwd_h_fn(k, v, h0, BT, output_final_state): [h, final_state]
chunk_fwd_h_fn(k_, v_, h0, D, ofs) ==
    RetFwdHGrid(Empty(D.NT * D.K, D.V), IF ofs THEN Empty(D.K, D.V) ELSE None,
                Tiles(D), k_, v_, h0, D)

RECURSIVE RetFwdOGrid(_, _, _, _, _, _, _)
RetFwdOGrid(o_, tasks, q_, k_, v_, h_, D) ==
    IF tasks = {} THEN o_
    ELSE LET task == CHOOSE x \in tasks : TRUE
             o1 == chunk_retention_fwd_kernel_o(q_, k_, v_, h_, o_, D, task[1], task[2])
         IN  Then(o1, RetFwdOGrid(o1, tasks \ {task}, q_, k_, v_, h_, D))

\* chunk_fwd_o_fn(q, k, v, h, BT, scale): o
chunk_fwd_o_fn(q_, k_, v_, h_, D) ==
    RetFwdOGrid(Empty(D.T, D.V), TasksVT(D), q_, k_, v_, h_, D)

\* ChunkRetentionFunction.forward: [o, final_state]
ChunkRetentionForward(q_, k_, v_, h0, D, ofs) ==
    LET r == chunk_fwd_h_fn(k_, v_, h0, D, ofs)
    IN  Then(r, [o |-> chunk_fwd_o_fn(q_, k_, v_, r.h, D), final_state |-> r.final_state])


-----------------------------------------------------------------------------
(* The WY-representation collaborator, fla/ops/delta_rule/wy_fast.py.      *)
(* Within a chunk, position j gets the row                                 *)
(*   A[j] = e_j - beta[j] * sum over earlier s of (k[j] . k[s]) * A[s]     *)
(* and w = A (beta * k), u = A v: the chunk-local transform that          *)
(* re-expresses the per-token additive-forget updates                      *)
(*   S = S - beta[t] * k[t]^T (k[t] S) + k[t]^T v[t]                       *)
(* as v_new = u - w S, S = S + k^T v_new. beta is the forget strength of a *)
(* position: where it is zero nothing is forgotten, w is zero and u is v.  *)

VDot(a, b) == SumSeq(Vec(Len(a), LAMBDA l : Mul(a[l + 1], b[l + 1])))

\* the rows of A of the chunk starting at position t0, from local row j on
RECURSIVE WyRows(_, _, _, _, _, _, _)
WyRows(rows, j, t0, k_, beta_, T_, BT_) ==
    IF j >= BT_ \/ t0 + j >= T_ THEN rows
    ELSE LET c(s) == Mul(beta_[t0 + j + 1], VDot(k_[t0 + j + 1], k_[t0 + s + 1]))
             row == Vec(BT_, LAMBDA x :
                        Sub(IF x = j THEN 1 ELSE 0,
                            SumSeq(Vec(j, LAMBDA s : Mul(c(s), rows[s + 1][x + 1])))))
         IN  Then(row, WyRows(Append(rows, row), j + 1, t0, k_, beta_, T_, BT_))

\* A: one row of BT entries per position
WyA(k_, beta_, T_, BT_) ==
    LET chunkA(i_t) == WyRows(<<>>, 0, i_t * BT_, k_, beta_, T_, BT_)
        all == Vec(Cdiv(T_, BT_), chunkA)
    IN  Then(all, Vec(T_, LAMBDA t : all[(t \div BT_) + 1][(t % BT_) + 1]))

\* fwd_recompute_w_u(k, v, beta, A, BT): [w, u]
fwd_recompute_w_u(k_, v_, beta_, A_, T_, BT_) ==
    LET t0(t) == (t \div BT_) * BT_
        n(t) == Min(BT_, T_ - t0(t))
        forget(t, c) ==
            SumSeq(Vec(n(t), LAMBDA s :
                Mul(At(A_, t, s), Mul(beta_[t0(t) + s + 1], At(k_, t0(t) + s, c)))))
        correct(t, c) ==
            SumSeq(Vec(n(t), LAMBDA s : Mul(At(A_, t, s), At(v_, t0(t) + s, c))))
    IN  Then(A_, [w |-> Mat(T_, Cols(k_), forget),
                  u |-> Mat(T_, Cols(v_), correct)])

\* fwd_prepare_wy_repr(k, v, beta, BT): [w, u, A]
fwd_prepare_wy_repr(k_, v_, beta_, T_, BT_) ==
    LET a == WyA(k_, beta_, T_, BT_)
        r == fwd_recompute_w_u(k_, v_, beta_, a, T_, BT_)
    IN  Then(a, [w |-> r.w, u |-> r.u, A |-> a])

-----------------------------------------------------------------------------
(* Delta rule: tile selection of the host functions.                       *)

DeltaMaxBK == 256
DeltaBVWide == 64
DeltaBVNarrow == 32
DeltaBCWide == 64
DeltaBCNarrow == 32
DeltaBCWideMaxK == 128
DeltaTile == 64

\* chunk_delta_rule_fwd_h_fn: BK, BV, BC, NT, NK, NV for device capability cap
chunk_delta_rule_fwd_h_fn_dims(T_, K_, V_, BT_, cap) ==
    LET bk == NextPow2(K_)
        bv == IF cap[1] >= 9 THEN DeltaBVWide
              ELSE IF cap = <<8, 0>> THEN DeltaBVNarrow ELSE DeltaBVNarrow
        bc0 == IF cap[1] >= 9 THEN DeltaBCWide
               ELSE IF cap = <<8, 0>> THEN DeltaBCWide
               ELSE IF K_ <= DeltaBCWideMaxK THEN DeltaBCWide ELSE DeltaBCNarrow
    IN  [T |-> T_, K |-> K_, V |-> V_, BT |-> BT_, BK |-> bk, BV |-> bv,
         BC |-> Min(BT_, bc0),
         NT |-> Cdiv(T_, BT_), NK |-> Cdiv(K_, bk), NV |-> Cdiv(V_, bv)]

\* the host function with its second assertion only
chunk_delta_rule_fwd_h_fn_error_tiles_only(K_) ==
    IF ~(Cdiv(K_, NextPow2(K_)) = 1) THEN "NK > 1"
    ELSE NoError

\* the two assertions of chunk_delta_rule_fwd_h_fn, in the order they run:
\* the error raised, or None
chunk_delta_rule_fwd_h_fn_error(K_) ==
    IF ~(NextPow2(K_) <= DeltaMaxBK) THEN "BK > 256"
    ELSE IF ~(Cdiv(K_, NextPow2(K_)) = 1) THEN "NK > 1"
    ELSE NoError

\* chunk_delta_rule_fwd_o_fn (and chunk_delta_rule_fwd_prepare_dv,
\* chunk_delta_rule_bwd_dqkw_fn): BK, BV = min(next_power_of_2(.), 64)
DeltaDims(T_, K_, V_, BT_, sc) ==
    LET bk == Min(NextPow2(K_), DeltaTile)
        bv == Min(NextPow2(V_), DeltaTile)
    IN  [T |-> T_, K |-> K_, V |-> V_, BT |-> BT_, scale |-> sc, BK |-> bk, BV |-> bv,
         NT |-> Cdiv(T_, BT_), NK |-> Cdiv(K_, bk), NV |-> Cdiv(V_, bv)]

-----------------------------------------------------------------------------
(* chunk_delta_rule_fwd_kernel_h, program (i_k, i_v, i_bh); k, u, w are    *)
(* the kernel's k, v, d.                                                   *)

chunk_delta_rule_fwd_kernel_h_init(h0, D, i_k, i_v) ==
    IF h0 # None
    THEN Ld(h0, 0, D.K, D.V, i_k * D.BK, i_v * D.BV, D.BK, D.BV)
    ELSE Zeros(D.BK, D.BV)

chunk_delta_rule_fwd_kernel_h_store(h_, b_h, i_t, D, i_k, i_v) ==
    St(h_, i_t * D.K, D.K, D.V, i_k * D.BK, i_v * D.BV, D.BK, D.BV, b_h)

\* the sub-chunk loop of iteration i_t from sub-tile i_c on:
\* <<v_new, b_h_cumsum>> after the loop
RECURSIVE chunk_delta_rule_fwd_kernel_h_sub(_, _, _, _, _, _, _, _, _, _, _)
chunk_delta_rule_fwd_kernel_h_sub(vn, cumsum, i_c, b_h, i_t, k_, u_, w_, D, i_k, i_v) ==
    IF i_c >= Cdiv(D.BT, D.BC) THEN <<vn, cumsum>>
    ELSE LET t0 == i_t * D.BT + i_c * D.BC
             b_k == LdT(k_, D.K, D.T, i_k * D.BK, t0, D.BK, D.BC)
             b_d == Ld(w_, 0, D.T, D.K, t0, i_k * D.BK, D.BC, D.BK)
             b_v0 == Ld(u_, 0, D.T, D.V, t0, i_v * D.BV, D.BC, D.BV)
             b_v == Then(<<b_k, b_d, b_v0>>, MSub(b_v0, Dot(b_d, b_h)))
             vn1 == St(vn, 0, D.T, D.V, t0, i_v * D.BV, D.BC, D.BV, b_v)
             cumsum1 == MAdd(cumsum, Dot(b_k, b_v))
         IN  Then(<<vn1, cumsum1>>,
                  chunk_delta_rule_fwd_kernel_h_sub(vn1, cumsum1, i_c + 1, b_h, i_t,
                                                    k_, u_, w_, D, i_k, i_v))

\* the update with the chunk's sum replacing the running state
chunk_delta_rule_fwd_kernel_h_update_overwrite(vn, b_h, i_t, k_, u_, w_, D, i_k, i_v) ==
    LET r == chunk_delta_rule_fwd_kernel_h_sub(vn, Zeros(D.BK, D.BV), 0, b_h, i_t,
                                               k_, u_, w_, D, i_k, i_v)
    IN  Then(r, [v_new |-> r[1], b_h |-> r[2]])

\* iteration i_t after the snapshot store: [v_new, b_h]
chunk_delta_rule_fwd_kernel_h_update(vn, b_h, i_t, k_, u_, w_, D, i_k, i_v) ==
    LET r == chunk_delta_rule_fwd_kernel_h_sub(vn, Zeros(D.BK, D.BV), 0, b_h, i_t,
                                               k_, u_, w_, D, i_k, i_v)
    IN  Then(r, [v_new |-> r[1], b_h |-> MAdd(b_h, r[2])])

chunk_delta_rule_fwd_kernel_h_final(ht, b_h, D, i_k, i_v) ==
    IF ht # None
    THEN St(ht, 0, D.K, D.V, i_k * D.BK, i_v * D.BV, D.BK, D.BV, b_h)
    ELSE ht

-----------------------------------------------------------------------------
(* chunk_delta_rule_fwd_kernel_o, program (i_v, i_t, i_bh); v is v_new.    *)

\* the output engine with the causal mask on b_s left out
chunk_delta_rule_fwd_kernel_o_unmasked(q_, k_, vn, h_, o_, D, i_v, i_t) ==
    LET b_q(i_k) == MScale(D.scale, Ld(q_, 0, D.T, D.K, i_t * D.BT, i_k * D.BK, D.BT, D.BK))
        b_k(i_k) == LdT(k_, D.K, D.T, i_k * D.BK, i_t * D.BT, D.BK, D.BT)
        b_h(i_k) == Ld(h_, i_t * D.K, D.K, D.V, i_k * D.BK, i_v * D.BV, D.BK, D.BV)
        nk == Cdiv(D.K, D.BK)
        b_o1 == MSumSeq(Zeros(D.BT, D.BV), Vec(nk, LAMBDA i_k : Dot(b_q(i_k), b_h(i_k))))
        b_s1 == MSumSeq(Zeros(D.BT, D.BT), Vec(nk, LAMBDA i_k : Dot(b_q(i_k), b_k(i_k))))
        b_v == Ld(vn, 0, D.T, D.V, i_t * D.BT, i_v * D.BV, D.BT, D.BV)
        b_o == MAdd(b_o1, Dot(b_s1, b_v))
    IN  Then(<<b_o1, b_s1, b_v, b_o>>,
             St(o_, 0, D.T, D.V, i_t * D.BT, i_v * D.BV, D.BT, D.BV, b_o))

chunk_delta_rule_fwd_kernel_o(q_, k_, vn, h_, o_, D, i_v, i_t) ==
    LET b_q(i_k) == MScale(D.scale, Ld(q_, 0, D.T, D.K, i_t * D.BT, i_k * D.BK, D.BT, D.BK))
        b_k(i_k) == LdT(k_, D.K, D.T, i_k * D.BK, i_t * D.BT, D.BK, D.BT)
        b_h(i_k) == Ld(h_, i_t * D.K, D.K, D.V, i_k * D.BK, i_v * D.BV, D.BK, D.BV)
        nk == Cdiv(D.K, D.BK)
        b_o1 == MSumSeq(Zeros(D.BT, D.BV), Vec(nk, LAMBDA i_k : Dot(b_q(i_k), b_h(i_k))))
        b_s1 == MSumSeq(Zeros(D.BT, D.BT), Vec(nk, LAMBDA i_k : Dot(b_q(i_k), b_k(i_k))))
        b_s == Mat(D.BT, D.BT, LAMBDA i, j : IF i >= j THEN At(b_s1, i, j) ELSE 0)
        b_v == Ld(vn, 0, D.T, D.V, i_t * D.BT, i_v * D.BV, D.BT, D.BV)
        b_o == MAdd(b_o1, Dot(b_s, b_v))
    IN  Then(<<b_o1, b_s1, b_s, b_v, b_o>>,
             St(o_, 0, D.T, D.V, i_t * D.BT, i_v * D.BV, D.BT, D.BV, b_o))

-----------------------------------------------------------------------------
(* The host functions of the delta-rule forward pass, run to completion.   *)

RECURSIVE DeltaFwdHLoop(_, _, _, _, _, _, _, _, _, _)
DeltaFwdHLoop(h_, vn, b_h, i_t, k_, u_, w_, D, i_k, i_v) ==
    IF i_t >= D.NT THEN <<h_, vn, b_h>>
    ELSE LET r == chunk_delta_rule_fwd_kernel_h_update(vn, b_h, i_t, k_, u_, w_, D, i_k, i_v)
             stored == chunk_delta_rule_fwd_kernel_h_store(h_, b_h, i_t, D, i_k, i_v)
         IN  Then(<<stored, r>>,
                  DeltaFwdHLoop(stored, r.v_new, r.b_h, i_t + 1, k_, u_, w_, D, i_k, i_v))

RECURSIVE DeltaFwdHGrid(_, _, _, _, _, _, _, _, _)
DeltaFwdHGrid(h_, vn, ht, tiles, k_, u_, w_, h0, D) ==
    IF tiles = {} THEN [h |-> h_, v_new |-> vn, final_state |-> ht]
    ELSE LET tile == CHOOSE x \in tiles : TRUE
             r == DeltaFwdHLoop(h_, vn,
                                chunk_delta_rule_fwd_kernel_h_init(h0, D, tile[1], tile[2]),
                                0, k_, u_, w_, D, tile[1], tile[2])
         IN  Then(r, DeltaFwdHGrid(r[1], r[2],
                                   chunk_delta_rule_fwd_kernel_h_final(ht, r[3], D, tile[1], tile[2]),
                                   tiles \ {tile}, k_, u_, w_, h0, D))

\* chunk_delta_rule_fwd_h_fn(k, w, u, BT, initial_state, final_state), past its
\* assertions: [h, v_new, final_state] (final_state is written in place)
chunk_delta_rule_fwd_h_fn(k_, w_, u_, h0, ht, D) ==
    DeltaFwdHGrid(Empty(D.NT * D.K, D.V), Empty(D.T, D.V), ht, Tiles(D), k_, u_, w_, h0, D)

RECURSIVE DeltaFwdOGrid(_, _, _, _, _, _, _)
DeltaFwdOGrid(o_, tasks, q_, k_, vn, h_, D) ==
    IF tasks = {} THEN o_
    ELSE LET task == CHOOSE x \in tasks : TRUE
             o1 == chunk_delta_rule_fwd_kernel_o(q_, k_, vn, h_, o_, D, task[1], task[2])
         IN  Then(o1, DeltaFwdOGrid(o1, tasks \ {task}, q_, k_, vn, h_, D))

\* chunk_delta_rule_fwd_o_fn(q, k, v_new, h, BT, scale): o
chunk_delta_rule_fwd_o_fn(q_, k_, vn, h_, D) ==
    DeltaFwdOGrid(Empty(D.T, D.V), TasksVT(D), q_, k_, vn, h_, D)

\* the state and output engines on given w, u: [o, h, v_new, final_state]
DeltaCoreForward(q_, k_, w_, u_, h0, ofs, T_, K_, V_, BT_, sc, cap) ==
    LET Dh == chunk_delta_rule_fwd_h_fn_dims(T_, K_, V_, BT_, cap)
        Do == DeltaDims(T_, K_, V_, BT_, sc)
        r == chunk_delta_rule_fwd_h_fn(k_, w_, u_, h0,
                                       IF ofs THEN Empty(K_, V_) ELSE None, Dh)
    IN  Then(r, [o |-> chunk_delta_rule_fwd_o_fn(q_, k_, r.v_new, r.h, Do),
                 h |-> r.h, v_new |-> r.v_new, final_state |-> r.final_state])

\* chunk_delta_rule_fwd: [o, A, h, v_new, final_state]
chunk_delta_rule_fwd(q_, k_, v_, beta_, sc, h0, ofs, cl, T_, K_, V_, BT_, cap) ==
    LET wy == fwd_prepare_wy_repr(k_, v_, beta_, T_, BT_)
        r == DeltaCoreForward(q_, k_, wy.w, wy.u, h0, ofs, T_, K_, V_, BT_, sc, cap)
    IN  Then(wy, Then(r,
            [o |-> r.o, A |-> wy.A,
             h |-> IF cl = 1 THEN None ELSE r.h,
             v_new |-> IF cl = 1 THEN None ELSE r.v_new,
             final_state |-> r.final_state]))


-----------------------------------------------------------------------------
(* chunk_retention_bwd_kernel_dh, program (i_k, i_v, i_bh).                *)

\* b_dh before the loop: zeros, plus the dht tile when USE_FINAL_STATE_GRADIENT
chunk_retention_bwd_kernel_dh_init(dht_, D, i_k, i_v) ==
    IF dht_ # None
    THEN MAdd(Zeros(D.BK, D.BV), Ld(dht_, 0, D.K, D.V, i_k * D.BK, i_v * D.BV, D.BK, D.BV))
    ELSE Zeros(D.BK, D.BV)

chunk_retention_bwd_kernel_dh_store(dh_, b_dh, i_t, D, i_k, i_v) ==
    St(dh_, i_t * D.K, D.K, D.V, i_k * D.BK, i_v * D.BV, D.BK, D.BV, b_dh)

\* the update decaying a partial last chunk over the full chunk size
chunk_retention_bwd_kernel_dh_update_full(b_dh, i_t, q_, do_, D, i_k, i_v) ==
    LET i_h == D.i_bh % D.H
        d_i(o_i) == Exp2b(i_h, o_i + 1)
        d_b == Exp2b(i_h, D.BT)
        b_q == MScale(D.scale, LdT(q_, D.K, D.T, i_k * D.BK, i_t * D.BT, D.BK, D.BT))
        b_do == Ld(do_, 0, D.T, D.V, i_t * D.BT, i_v * D.BV, D.BT, D.BV)
    IN  Then(<<b_q, b_do>>, MAdd(MScale(d_b, b_dh), Dot(b_q, RowScale(b_do, d_i))))

\* b_dh after iteration i_t: d_b * b_dh + dot(b_q * scale, b_do * d_i[:, None])
chunk_retention_bwd_kernel_dh_update(b_dh, i_t, q_, do_, D, i_k, i_v) ==
    LET i_h == D.i_bh % D.H
        d_i(o_i) == Exp2b(i_h, o_i + 1)
        d_b == Exp2b(i_h, Min(D.BT, D.T - i_t * D.BT))
        b_q == MScale(D.scale, LdT(q_, D.K, D.T, i_k * D.BK, i_t * D.BT, D.BK, D.BT))
        b_do == Ld(do_, 0, D.T, D.V, i_t * D.BT, i_v * D.BV, D.BT, D.BV)
    IN  Then(<<b_q, b_do>>, MAdd(MScale(d_b, b_dh), Dot(b_q, RowScale(b_do, d_i))))

\* tl.store(p_dh0, b_dh) when STORE_INITIAL_STATE_GRADIENT
chunk_retention_bwd_kernel_dh_final(dh0_, b_dh, D, i_k, i_v) ==
    IF dh0_ # None
    THEN St(dh0_, 0, D.K, D.V, i_k * D.BK, i_v * D.BV, D.BK, D.BV, b_dh)
    ELSE dh0_

-----------------------------------------------------------------------------
(* chunk_retention_bwd_kernel_dqkv, program (i_k, i_t, i_bh).  dv_ holds   *)
(* one T x V buffer per K-tile: the slices dv[i_k, i_bh] of the (NK, B, H, *)
(* T, V) tensor.                                                           *)

\* the i_v loop's stores into the dv buffer of K-tile i_k, from V-tile i_v on
RECURSIVE chunk_retention_bwd_kernel_dqkv_dv(_, _, _, _, _, _, _, _, _, _)
chunk_retention_bwd_kernel_dqkv_dv(dvk, i_v, b_k, b_s, d_k(_), do_, dh_, D, i_k, i_t) ==
    IF i_v >= Cdiv(D.V, D.BV) THEN dvk
    ELSE LET b_do == Ld(do_, 0, D.T, D.V, i_t * D.BT, i_v * D.BV, D.BT, D.BV)
             b_dh == Ld(dh_, 0, D.NT * D.K, D.V, i_t * D.K + i_k * D.BK, i_v * D.BV, D.BK, D.BV)
             b_dv == Then(<<b_do, b_dh>>, MAdd(RowScale(Dot(b_k, b_dh), d_k), Dot(b_s, b_do)))
             dvk1 == St(dvk, 0, D.T, D.V, i_t * D.BT, i_v * D.BV, D.BT, D.BV, b_dv)
         IN  Then(dvk1, chunk_retention_bwd_kernel_dqkv_dv(dvk1, i_v + 1, b_k, b_s, d_k,
                                                           do_, dh_, D, i_k, i_t))

\* [dq, dk, dv] after the program
chunk_retention_bwd_kernel_dqkv(q_, k_, v_, h_, do_, dh_, dq_, dk_, dv_, D, i_k, i_t) ==
    LET i_h == D.i_bh % D.H
        d_q(o_i) == Mul(Exp2b(i_h, o_i + 1), D.scale)
        d_k(o_i) == Exp2b(i_h, Min(D.BT, D.T - i_t * D.BT) - o_i - 1)
        d_s == Mat(D.BT, D.BT, LAMBDA i, j :
                   Mul(IF i >= j THEN Exp2b(i_h, i - j) ELSE 0, D.scale))
        b_q == LdT(q_, D.K, D.T, i_k * D.BK, i_t * D.BT, D.BK, D.BT)
        b_k == Ld(k_, 0, D.T, D.K, i_t * D.BT, i_k * D.BK, D.BT, D.BK)
        b_s == MHad(Dot(b_k, b_q), Trans(d_s))
        nv == Cdiv(D.V, D.BV)
        b_v(i_v) == Ld(v_, 0, D.T, D.V, i_t * D.BT, i_v * D.BV, D.BT, D.BV)
        b_do(i_v) == Ld(do_, 0, D.T, D.V, i_t * D.BT, i_v * D.BV, D.BT, D.BV)
        b_h(i_v) == LdT(h_, D.V, D.NT * D.K, i_v * D.BV, i_t * D.K + i_k * D.BK, D.BV, D.BK)
        b_dh(i_v) == Ld(dh_, 0, D.NT * D.K, D.V, i_t * D.K + i_k * D.BK, i_v * D.BV, D.BK, D.BV)
        b_ds1 == MSumSeq(Zeros(D.BT, D.BT), Vec(nv, LAMBDA i_v : Dot(b_do(i_v), Trans(b_v(i_v)))))
        b_dq1 == MSumSeq(Zeros(D.BT, D.BK), Vec(nv, LAMBDA i_v : Dot(b_do(i_v), b_h(i_v))))
        b_dk1 == MSumSeq(Zeros(D.BT, D.BK), Vec(nv, LAMBDA i_v : Dot(b_v(i_v), Trans(b_dh(i_v)))))
        b_ds == MHad(b_ds1, d_s)
        b_dq == MAdd(RowScale(b_dq1, d_q), Dot(b_ds, b_k))
        b_dk == MAdd(RowScale(b_dk1, d_k), Trans(Dot(b_q, b_ds)))
    IN  Then(<<d_s, b_q, b_k, b_s, b_ds1, b_dq1, b_dk1, b_ds, b_dq, b_dk>>,
             [dq |-> St(dq_, 0, D.T, D.K, i_t * D.BT, i_k * D.BK, D.BT, D.BK, b_dq),
              dk |-> St(dk_, 0, D.T, D.K, i_t * D.BT, i_k * D.BK, D.BT, D.BK, b_dk),
              dv |-> [dv_ EXCEPT ![i_k + 1] =
                         chunk_retention_bwd_kernel_dqkv_dv(@, 0, b_k, b_s, d_k, do_, dh_,
                                                            D, i_k, i_t)]])

-----------------------------------------------------------------------------
(* The host functions of the retention backward pass, run to completion.   *)
(* chunk_bwd_dh_fn and chunk_bwd_dqkv_fn bind BT to the literal that       *)
(* ChunkRetentionFunction.forward passed to the forward engines; D.BT is   *)
(* that chunk size.                                                        *)

RECURSIVE RetBwdDhLoop(_, _, _, _, _, _, _, _)
RetBwdDhLoop(dh_, b_dh, i_t, q_, do_, D, i_k, i_v) ==
    IF i_t < 0 THEN <<dh_, b_dh>>
    ELSE LET stored == chunk_retention_bwd_kernel_dh_store(dh_, b_dh, i_t, D, i_k, i_v)
             b_dh1 == chunk_retention_bwd_kernel_dh_update(b_dh, i_t, q_, do_, D, i_k, i_v)
         IN  Then(<<stored, b_dh1>>,
                  RetBwdDhLoop(stored, b_dh1, i_t - 1, q_, do_, D, i_k, i_v))

RECURSIVE RetBwdDhGrid(_, _, _, _, _, _, _)
RetBwdDhGrid(dh_, dh0_, tiles, q_, do_, dht_, D) ==
    IF tiles = {} THEN [dh |-> dh_, dh0 |-> dh0_]
    ELSE LET tile == CHOOSE x \in tiles : TRUE
             r == RetBwdDhLoop(dh_, chunk_retention_bwd_kernel_dh_init(dht_, D, tile[1], tile[2]),
                               D.NT - 1, q_, do_, D, tile[1], tile[2])
         IN  Then(r, RetBwdDhGrid(r[1],
                                  chunk_retention_bwd_kernel_dh_final(dh0_, r[2], D, tile[1], tile[2]),
                                  tiles \ {tile}, q_, do_, dht_, D))

\* chunk_bwd_dh_fn(q, k, v, h0, do, dht, BT, scale): [dh, dh0]
chunk_bwd_dh_fn(q_, h0, do_, dht_, D) ==
    RetBwdDhGrid(Empty(D.NT * D.K, D.V), IF h0 # None THEN Empty(D.K, D.V) ELSE None,
                 Tiles(D), q_, do_, dht_, D)

RECURSIVE RetBwdDqkvGrid(_, _, _, _, _, _, _, _, _)
RetBwdDqkvGrid(g, tasks, q_, k_, v_, h_, do_, dh_, D) ==
    IF tasks = {} THEN g
    ELSE LET task == CHOOSE x \in tasks : TRUE
             g1 == chunk_retention_bwd_kernel_dqkv(q_, k_, v_, h_, do_, dh_, g.dq, g.dk, g.dv,
                                                   D, task[1], task[2])
         IN  Then(g1, RetBwdDqkvGrid(g1, tasks \ {task}, q_, k_, v_, h_, do_, dh_, D))

\* dv.sum(0): the sum of the K-tiles' partial buffers
SumParts(parts, T_, V_) == MSumSeq(Zeros(T_, V_), parts)

\* chunk_bwd_dqkv_fn(q, k, v, h, do, dh, scale): [dq, dk, dv]
chunk_bwd_dqkv_fn(q_, k_, v_, h_, do_, dh_, D) ==
    LET g == RetBwdDqkvGrid([dq |-> Empty(D.T, D.K), dk |-> Empty(D.T, D.K),
                             dv |-> Vec(D.NK, LAMBDA i : Empty(D.T, D.V))],
                            TasksKT(D), q_, k_, v_, h_, do_, dh_, D)
    IN  Then(g, [dq |-> g.dq, dk |-> g.dk, dv |-> SumParts(g.dv, D.T, D.V)])

\* ChunkRetentionFunction.backward: [dq, dk, dv, dh0]
ChunkRetentionBackward(q_, k_, v_, h0, do_, dht_, D) ==
    LET hh == chunk_fwd_h_fn(k_, v_, h0, D, FALSE).h
        r == chunk_bwd_dh_fn(q_, h0, do_, dht_, D)
        g == chunk_bwd_dqkv_fn(q_, k_, v_, hh, do_, r.dh, D)
    IN  Then(<<hh, r>>, Then(g, [dq |-> g.dq, dk |-> g.dk, dv |-> g.dv, dh0 |-> r.dh0]))


-----------------------------------------------------------------------------
(* chunk_delta_rule_fwd_kernel_prepare_dv, program (i_t, i_bh).            *)

RECURSIVE chunk_delta_rule_fwd_kernel_prepare_dv_loop(_, _, _, _, _, _)
chunk_delta_rule_fwd_kernel_prepare_dv_loop(dv_, i_v, b_A, do_, D, i_t) ==
    IF i_v >= Cdiv(D.V, D.BV) THEN dv_
    ELSE LET b_do == Ld(do_, 0, D.T, D.V, i_t * D.BT, i_v * D.BV, D.BT, D.BV)
             dv1 == St(dv_, 0, D.T, D.V, i_t * D.BT, i_v * D.BV, D.BT, D.BV, Dot(b_A, b_do))
         IN  Then(dv1, chunk_delta_rule_fwd_kernel_prepare_dv_loop(dv1, i_v + 1, b_A, do_, D, i_t))

chunk_delta_rule_fwd_kernel_prepare_dv(q_, k_, do_, dv_, D, i_t) ==
    LET b_k(i_k) == Ld(k_, 0, D.T, D.K, i_t * D.BT, i_k * D.BK, D.BT, D.BK)
        b_q(i_k) == MScale(D.scale, LdT(q_, D.K, D.T, i_k * D.BK, i_t * D.BT, D.BK, D.BT))
        b_A1 == MSumSeq(Zeros(D.BT, D.BT),
                        Vec(Cdiv(D.K, D.BK), LAMBDA i_k : Dot(b_k(i_k), b_q(i_k))))
        b_A == Mat(D.BT, D.BT, LAMBDA i, j : IF i <= j THEN At(b_A1, i, j) ELSE 0)
    IN  Then(<<b_A1, b_A>>, chunk_delta_rule_fwd_kernel_prepare_dv_loop(dv_, 0, b_A, do_, D, i_t))

-----------------------------------------------------------------------------
(* chunk_delta_rule_bwd_kernel_dhu, program (i_k, i_v, i_bh); w is the     *)
(* kernel's d.                                                             *)

\* a backward state engine that selects its tiles as the forward one does
chunk_delta_rule_bwd_dhu_fn_dims_as_forward(T_, K_, V_, BT_, sc, cap) ==
    [scale |-> sc] @@ chunk_delta_rule_fwd_h_fn_dims(T_, K_, V_, BT_, cap)

\* chunk_delta_rule_bwd_dhu_fn: BK, BV, BC, NT, NK, NV for device capability cap
chunk_delta_rule_bwd_dhu_fn_dims(T_, K_, V_, BT_, sc, cap) ==
    LET bk == NextPow2(K_)
        bv == IF cap[1] >= 9 THEN DeltaBVWide
              ELSE IF cap = <<8, 0>> THEN DeltaBVNarrow ELSE DeltaBVNarrow
        bc0 == IF cap[1] >= 9 THEN DeltaBCWide
               ELSE IF cap = <<8, 0>>
                    THEN (IF K_ <= DeltaBCWideMaxK THEN DeltaBCWide ELSE DeltaBCNarrow)
               ELSE IF K_ <= DeltaBCWideMaxK THEN DeltaBCWide ELSE DeltaBCNarrow
    IN  [T |-> T_, K |-> K_, V |-> V_, BT |-> BT_, scale |-> sc, BK |-> bk, BV |-> bv,
         BC |-> Min(BT_, bc0),
         NT |-> Cdiv(T_, BT_), NK |-> Cdiv(K_, bk), NV |-> Cdiv(V_, bv)]

\* the two assertions of chunk_delta_rule_bwd_dhu_fn: the error raised, or None
chunk_delta_rule_bwd_dhu_fn_error(K_) ==
    IF ~(NextPow2(K_) <= DeltaMaxBK) THEN "BK > 256"
    ELSE IF ~(Cdiv(K_, NextPow2(K_)) = 1) THEN "NK > 1"
    ELSE NoError

\* b_dh before the loop: zeros, plus the dht tile when STORE_FINAL_STATE
chunk_delta_rule_bwd_kernel_dhu_init(dht_, D, i_k, i_v) ==
    IF dht_ # None
    THEN MAdd(Zeros(D.BK, D.BV), Ld(dht_, 0, D.K, D.V, i_k * D.BK, i_v * D.BV, D.BK, D.BV))
    ELSE Zeros(D.BK, D.BV)

chunk_delta_rule_bwd_kernel_dhu_store(dh_, b_dh, i_t, D, i_k, i_v) ==
    St(dh_, i_t * D.K, D.K, D.V, i_k * D.BK, i_v * D.BV, D.BK, D.BV, b_dh)

\* the sub-chunk loop of iteration i_t from sub-tile i_c down:
\* <<dv2, b_dh_tmp>> after the loop
RECURSIVE chunk_delta_rule_bwd_kernel_dhu_sub(_, _, _, _, _, _, _, _, _, _, _, _, _)
chunk_delta_rule_bwd_kernel_dhu_sub(dv2_, tmp, i_c, b_dh, i_t, q_, k_, w_, do_, dv_, D, i_k, i_v) ==
    IF i_c < 0 THEN <<dv2_, tmp>>
    ELSE LET t0 == i_t * D.BT + i_c * D.BC
             b_q == MScale(D.scale, LdT(q_, D.K, D.T, i_k * D.BK, t0, D.BK, D.BC))
             b_k == Ld(k_, 0, D.T, D.K, t0, i_k * D.BK, D.BC, D.BK)
             b_d == LdT(w_, D.K, D.T, i_k * D.BK, t0, D.BK, D.BC)
             b_do == Ld(do_, 0, D.T, D.V, t0, i_v * D.BV, D.BC, D.BV)
             b_dv == Then(<<b_q, b_k, b_d, b_do>>,
                          MAdd(Ld(dv_, 0, D.T, D.V, t0, i_v * D.BV, D.BC, D.BV), Dot(b_k, b_dh)))
             dv21 == St(dv2_, 0, D.T, D.V, t0, i_v * D.BV, D.BC, D.BV, b_dv)
             tmp1 == MSub(MAdd(tmp, Dot(b_q, b_do)), Dot(b_d, b_dv))
         IN  Then(<<dv21, tmp1>>,
                  chunk_delta_rule_bwd_kernel_dhu_sub(dv21, tmp1, i_c - 1, b_dh, i_t,
                                                      q_, k_, w_, do_, dv_, D, i_k, i_v))

\* the iteration with b_dh overwritten by the chunk's term instead of added to
chunk_delta_rule_bwd_kernel_dhu_update_overwrite(dv2_, b_dh, i_t, q_, k_, w_, do_, dv_, D, i_k, i_v) ==
    LET r == chunk_delta_rule_bwd_kernel_dhu_sub(dv2_, Zeros(D.BK, D.BV), Cdiv(D.BT, D.BC) - 1,
                                                 b_dh, i_t, q_, k_, w_, do_, dv_, D, i_k, i_v)
    IN  Then(r, [dv2 |-> r[1], b_dh |-> r[2]])

\* iteration i_t after the dh store: [dv2, b_dh]
chunk_delta_rule_bwd_kernel_dhu_update(dv2_, b_dh, i_t, q_, k_, w_, do_, dv_, D, i_k, i_v) ==
    LET r == chunk_delta_rule_bwd_kernel_dhu_sub(dv2_, Zeros(D.BK, D.BV), Cdiv(D.BT, D.BC) - 1,
                                                 b_dh, i_t, q_, k_, w_, do_, dv_, D, i_k, i_v)
    IN  Then(r, [dv2 |-> r[1], b_dh |-> MAdd(b_dh, r[2])])

\* tl.store(p_dh0, b_dh) when USE_INITIAL_STATE
chunk_delta_rule_bwd_kernel_dhu_final(dh0_, b_dh, D, i_k, i_v) ==
    IF dh0_ # None
    THEN St(dh0_, 0, D.K, D.V, i_k * D.BK, i_v * D.BV, D.BK, D.BV, b_dh)
    ELSE dh0_

-----------------------------------------------------------------------------
(* chunk_delta_rule_bwd_kernel_dqkw, program (i_k, i_t, i_bh); vn is the   *)
(* kernel's v (v_new) and du its dv (the dv2 of the dhu kernel).           *)

\* [dq, dk, dw] after the program
chunk_delta_rule_bwd_kernel_dqkw(q_, k_, vn, h_, do_, dh_, dq_, dk_, du, dw_, D, i_k, i_t) ==
    LET nv == Cdiv(D.V, D.BV)
        b_v(i_v) == Ld(vn, 0, D.T, D.V, i_t * D.BT, i_v * D.BV, D.BT, D.BV)
        b_do(i_v) == Ld(do_, 0, D.T, D.V, i_t * D.BT, i_v * D.BV, D.BT, D.BV)
        b_h(i_v) == LdT(h_, D.V, D.NT * D.K, i_v * D.BV, i_t * D.K + i_k * D.BK, D.BV, D.BK)
        b_dh(i_v) == LdT(dh_, D.V, D.NT * D.K, i_v * D.BV, i_t * D.K + i_k * D.BK, D.BV, D.BK)
        b_dv(i_v) == Ld(du, 0, D.T, D.V, i_t * D.BT, i_v * D.BV, D.BT, D.BV)
        b_ds1 == MSumSeq(Zeros(D.BT, D.BT), Vec(nv, LAMBDA i_v : Dot(b_do(i_v), Trans(b_v(i_v)))))
        b_dq1 == MSumSeq(Zeros(D.BT, D.BK), Vec(nv, LAMBDA i_v : Dot(b_do(i_v), b_h(i_v))))
        b_dk1 == MSumSeq(Zeros(D.BT, D.BK), Vec(nv, LAMBDA i_v : Dot(b_v(i_v), b_dh(i_v))))
        b_dw == MSumSeq(Zeros(D.BT, D.BK), Vec(nv, LAMBDA i_v : Dot(b_dv(i_v), b_h(i_v))))
        b_q == MScale(D.scale, LdT(q_, D.K, D.T, i_k * D.BK, i_t * D.BT, D.BK, D.BT))
        b_k == Ld(k_, 0, D.T, D.K, i_t * D.BT, i_k * D.BK, D.BT, D.BK)
        b_ds == Mat(D.BT, D.BT, LAMBDA i, j : IF i >= j THEN At(b_ds1, i, j) ELSE 0)
        b_dq == MScale(D.scale, MAdd(b_dq1, Dot(b_ds, b_k)))
        b_dk == MAdd(b_dk1, Trans(Dot(b_q, b_ds)))
    IN  Then(<<b_ds1, b_dq1, b_dk1, b_dw, b_q, b_k, b_ds, b_dq, b_dk>>,
             [dq |-> St(dq_, 0, D.T, D.K, i_t * D.BT, i_k * D.BK, D.BT, D.BK, b_dq),
              dk |-> St(dk_, 0, D.T, D.K, i_t * D.BT, i_k * D.BK, D.BT, D.BK, b_dk),
              dw |-> St(dw_, 0, D.T, D.K, i_t * D.BT, i_k * D.BK, D.BT, D.BK, MNeg(b_dw))])

-----------------------------------------------------------------------------
(* The gradient of the WY-representation collaborator: for each chunk, the *)
(* adjoint of (k, v, beta) -> (w, u) applied to (dw, du).                  *)

\* the chunk starting at t0, n positions long: [dk, dv, db] as n-row blocks
WyBwdChunk(k_, v_, beta_, A_, dw_, du, t0, n) ==
    LET Kc == Mat(n, Cols(k_), LAMBDA i, c : At(k_, t0 + i, c))
        Vc == Mat(n, Cols(v_), LAMBDA i, c : At(v_, t0 + i, c))
        b(i) == beta_[t0 + i + 1]
        Ac == Mat(n, n, LAMBDA i, j : At(A_, t0 + i, j))
        dWc == Mat(n, Cols(k_), LAMBDA i, c : At(dw_, t0 + i, c))
        dUc == Mat(n, Cols(v_), LAMBDA i, c : At(du, t0 + i, c))
        bK == RowScale(Kc, b)
        dbK == Dot(Trans(Ac), dWc)
        dbV == Dot(Trans(Ac), dUc)
        dA == MAdd(Dot(dWc, Trans(bK)), Dot(dUc, Trans(Vc)))
        dM == MNeg(Dot(Dot(Trans(Ac), dA), Trans(Ac)))
        dG == Mat(n, n, LAMBDA i, j : IF i > j THEN At(dM, i, j) ELSE 0)
        KK == Dot(Kc, Trans(Kc))
    IN  Then(<<Kc, Vc, Ac, dWc, dUc>>, Then(<<bK, dbK, dbV>>, Then(dA, Then(dM, Then(<<dG, KK>>,
            [dk |-> MAdd(RowScale(dbK, b),
                         MAdd(RowScale(Dot(dG, Kc), b), Dot(Trans(dG), bK))),
             dv |-> dbV,
             db |-> Vec(n, LAMBDA j :
                        Add(SumSeq(Vec(n, LAMBDA x : Mul(At(dG, j, x), At(KK, j, x)))),
                            VDot(dbK[j + 1], Kc[j + 1])))])))))

\* bwd_prepare_wy_repr(k, v, beta, A, dw, du, BT): [dk, dv, db]
bwd_prepare_wy_repr(k_, v_, beta_, A_, dw_, du, T_, BT_) ==
    LET c(i_t) == WyBwdChunk(k_, v_, beta_, A_, dw_, du, i_t * BT_, Min(BT_, T_ - i_t * BT_))
        all == Vec(Cdiv(T_, BT_), c)
        at(t) == all[(t \div BT_) + 1]
    IN  Then(all, [dk |-> Vec(T_, LAMBDA t : at(t).dk[(t % BT_) + 1]),
                   dv |-> Vec(T_, LAMBDA t : at(t).dv[(t % BT_) + 1]),
                   db |-> Vec(T_, LAMBDA t : at(t).db[(t % BT_) + 1])])


-----------------------------------------------------------------------------
(* The host functions of the delta-rule backward pass, run to completion.  *)

RECURSIVE DeltaPrepareDvGrid(_, _, _, _, _, _)
DeltaPrepareDvGrid(dv_, chunks, q_, k_, do_, D) ==
    IF chunks = {} THEN dv_
    ELSE LET i_t == CHOOSE x \in chunks : TRUE
             dv1 == chunk_delta_rule_fwd_kernel_prepare_dv(q_, k_, do_, dv_, D, i_t)
         IN  Then(dv1, DeltaPrepareDvGrid(dv1, chunks \ {i_t}, q_, k_, do_, D))

\* chunk_delta_rule_fwd_prepare_dv(q, k, do, BT, scale): dv
chunk_delta_rule_fwd_prepare_dv(q_, k_, do_, D) ==
    DeltaPrepareDvGrid(Empty(D.T, D.V), 0 .. D.NT - 1, q_, k_, do_, D)

RECURSIVE DeltaBwdDhuLoop(_, _, _, _, _, _, _, _, _, _, _, _)
DeltaBwdDhuLoop(dh_, dv2_, b_dh, i_t, q_, k_, w_, do_, dv_, D, i_k, i_v) ==
    IF i_t < 0 THEN <<dh_, dv2_, b_dh>>
    ELSE LET r == chunk_delta_rule_bwd_kernel_dhu_update(dv2_, b_dh, i_t, q_, k_, w_, do_, dv_,
                                                         D, i_k, i_v)
             stored == chunk_delta_rule_bwd_kernel_dhu_store(dh_, b_dh, i_t, D, i_k, i_v)
         IN  Then(<<stored, r>>,
                  DeltaBwdDhuLoop(stored, r.dv2, r.b_dh, i_t - 1, q_, k_, w_, do_, dv_,
                                  D, i_k, i_v))

RECURSIVE DeltaBwdDhuGrid(_, _, _, _, _, _, _, _, _, _, _)
DeltaBwdDhuGrid(dh_, dv2_, dh0_, tiles, q_, k_, w_, do_, dv_, dht_, D) ==
    IF tiles = {} THEN [dh |-> dh_, dh0 |-> dh0_, dv2 |-> dv2_]
    ELSE LET tile == CHOOSE x \in tiles : TRUE
             r == DeltaBwdDhuLoop(dh_, dv2_,
                                  chunk_delta_rule_bwd_kernel_dhu_init(dht_, D, tile[1], tile[2]),
                                  D.NT - 1, q_, k_, w_, do_, dv_, D, tile[1], tile[2])
         IN  Then(r, DeltaBwdDhuGrid(r[1], r[2],
                                     chunk_delta_rule_bwd_kernel_dhu_final(dh0_, r[3], D,
                                                                           tile[1], tile[2]),
                                     tiles \ {tile}, q_, k_, w_, do_, dv_, dht_, D))

\* chunk_delta_rule_bwd_dhu_fn(q, k, w, dht, dh0, do, dv, BT, scale), past its
\* assertions: [dh, dh0, dv2]
chunk_delta_rule_bwd_dhu_fn(q_, k_, w_, dht_, dh0_, do_, dv_, D) ==
    DeltaBwdDhuGrid(Empty(D.NT * D.K, D.V), Empty(D.T, D.V), dh0_, Tiles(D),
                    q_, k_, w_, do_, dv_, dht_, D)

RECURSIVE DeltaBwdDqkwGrid(_, _, _, _, _, _, _, _, _, _)
DeltaBwdDqkwGrid(g, tasks, q_, k_, vn, h_, do_, dh_, du, D) ==
    IF tasks = {} THEN g
    ELSE LET task == CHOOSE x \in tasks : TRUE
             g1 == chunk_delta_rule_bwd_kernel_dqkw(q_, k_, vn, h_, do_, dh_, g.dq, g.dk, du, g.dw,
                                                    D, task[1], task[2])
         IN  Then(g1, DeltaBwdDqkwGrid(g1, tasks \ {task}, q_, k_, vn, h_, do_, dh_, du, D))

\* chunk_delta_rule_bwd_dqkw_fn(q, k, v_new, w, h, du, do, dh, BT, scale): [dq, dk, dw]
chunk_delta_rule_bwd_dqkw_fn(q_, k_, vn, h_, du, do_, dh_, D) ==
    DeltaBwdDqkwGrid([dq |-> Empty(D.T, D.K), dk |-> Empty(D.T, D.K), dw |-> Empty(D.T, D.K)],
                     TasksKT(D), q_, k_, vn, h_, do_, dh_, du, D)

\* the backward state and gradient engines on given w, h, v_new:
\* [dq, dk, dw, dv2, dh, dh0]
DeltaCoreBackward(q_, k_, w_, h_, vn, h0, do_, dht_, T_, K_, V_, BT_, sc, cap) ==
    LET D == DeltaDims(T_, K_, V_, BT_, sc)
        Dh == chunk_delta_rule_bwd_dhu_fn_dims(T_, K_, V_, BT_, sc, cap)
        dh00 == IF h0 # None THEN Empty(K_, V_) ELSE None
        dv0 == chunk_delta_rule_fwd_prepare_dv(q_, k_, do_, D)
        r == chunk_delta_rule_bwd_dhu_fn(q_, k_, w_, dht_, dh00, do_, dv0, Dh)
        g == chunk_delta_rule_bwd_dqkw_fn(q_, k_, vn, h_, r.dv2, do_, r.dh, D)
    IN  Then(dv0, Then(r, Then(g,
            [dq |-> g.dq, dk |-> g.dk, dw |-> g.dw, dv2 |-> r.dv2, dh |-> r.dh, dh0 |-> r.dh0])))

\* chunk_delta_rule_bwd: [dq, dk, dv, db, dh0], and the h, v_new it used
chunk_delta_rule_bwd(q_, k_, v_, beta_, A_, h_, vn, sc, h0, do_, dht_, T_, K_, V_, BT_, cap) ==
    LET wu == fwd_recompute_w_u(k_, v_, beta_, A_, T_, BT_)
        re == chunk_delta_rule_fwd_h_fn(k_, wu.w, wu.u, h0, None,
                                        chunk_delta_rule_fwd_h_fn_dims(T_, K_, V_, BT_, cap))
        hh == IF h_ = None THEN re.h ELSE h_
        vv == IF h_ = None THEN re.v_new ELSE vn
        c == DeltaCoreBackward(q_, k_, wu.w, hh, vv, h0, do_, dht_, T_, K_, V_, BT_, sc, cap)
        y == bwd_prepare_wy_repr(k_, v_, beta_, A_, c.dw, c.dv2, T_, BT_)
    IN  Then(wu, Then(<<hh, vv>>, Then(c, Then(y,
            [dq |-> c.dq, dk |-> MAdd(c.dk, y.dk), dv |-> y.dv, db |-> y.db, dh0 |-> c.dh0,
             h |-> hh, v_new |-> vv]))))


-----------------------------------------------------------------------------
(* The calls the model makes.                                              *)

Variants == {"retention", "delta"}
\* torch.cuda.get_device_capability(): H100, A100, another device
Capabilities == <<<<9, 0>>, <<8, 0>>, <<8, 6>>>>
\* the device a call pattern runs on
InCapability(seed) == Capabilities[((seed - 1) % Len(Capabilities)) + 1]

\* entry (i, j) of input tensor number tag under pattern seed
InVal(seed, tag, i, j) == 1 + (((seed + tag) * (2 * i + 3 * j + 1) + tag * i) % 3)

InMat(seed, tag, r, c) == Mat(r, c, LAMBDA i, j : InVal(seed, tag, i, j))
InScale(seed) == 1 + (seed % 3)

RD == RetDims(T, K, V, H, i_bh, BT, scale)
DD == DeltaDims(T, K, V, BT, scale)
DH == chunk_delta_rule_fwd_h_fn_dims(T, K, V, BT, capability)
DHU == chunk_delta_rule_bwd_dhu_fn_dims(T, K, V, BT, scale, capability)

\* the machines a behaviour does not run stay idle
GridIdle ==
    g_call = None /\ g_pc = None /\ g_dims = None /\ g_pending = None /\ g_acc = None
RateIdle == r_call = None /\ r_rate = None

NoLanes == <<>>
AllDone == \A tile \in DOMAIN lanes : lanes[tile].done

\* the decay scalars of input pattern seed
InBeta(seed, t) == Vec(t, LAMBDA i : InVal(seed, 4, i, 0) % 3)

\* the state when forward() of variant var is entered with the given arguments
InitCall(var, t, bt, sh, seed, use_h0, ofs, ln, cl, cap, beta_) ==
    /\ variant = var /\ T = t /\ K = sh[1] /\ V = sh[2] /\ BT = bt
    /\ H = ln[1] /\ i_bh = ln[2]
    /\ scale = InScale(seed)
    /\ output_final_state = ofs
    /\ checkpoint_level = cl
    /\ capability = cap
    /\ q = InMat(seed, 1, t, sh[1])
    /\ k = InMat(seed, 2, t, sh[1])
    /\ v = InMat(seed, 3, t, sh[2])
    /\ beta = IF var = "delta" THEN beta_ ELSE None
    /\ do = InMat(seed, 5, t, sh[2])
    /\ dht = IF ofs THEN InMat(seed, 6, sh[1], sh[2]) ELSE None
    /\ initial_state = IF use_h0 THEN InMat(seed, 7, sh[1], sh[2]) ELSE None
    /\ pc = IF var = "retention" THEN "ret_forward" ELSE "dr_forward"
    /\ lanes = NoLanes /\ pending = {}
    /\ w = None /\ u = None /\ A = None /\ h = None /\ v_new = None
    /\ final_state = None /\ o = None /\ ctx = None
    /\ dv = None /\ dh = None /\ dh0 = None /\ dv2 = None /\ dq = None /\ dk = None
    /\ dw = None /\ dv_out = None /\ db = None
    /\ d_call = None /\ d_pc = None /\ d_launched = None /\ d_written = None
    /\ d_error = None
    /\ GridIdle /\ RateIdle

Init ==
    \E var \in Variants, t \in 1 .. MaxT, bt \in ChunkSizes, sh \in Shapes,
       seed \in 1 .. NSeeds, use_h0 \in BOOLEAN, ofs \in BOOLEAN :
      \E ln \in (IF var = "retention" THEN Lanes ELSE {<<1, 0>>}),
         cl \in (IF var = "delta" THEN {0, 1} ELSE {None}),
         cap \in (IF var = "delta" THEN {InCapability(seed + t + bt)} ELSE {None}) :
        InitCall(var, t, bt, sh, seed, use_h0, ofs, ln, cl, cap, InBeta(seed, t))

\* feature dimensions <<K, V>> that are not powers of two, so that the last
\* K-tile or V-tile of every kernel is partial
EdgeShapes == {<<3, 1>>, <<1, 3>>}

\* calls on the boundaries of the input space: a partial feature tile, and for
\* the delta rule a beta that is zero at every position
InitEdge ==
    \E var \in Variants, t \in 1 .. MaxT, bt \in ChunkSizes, sh \in EdgeShapes,
       seed \in 1 .. NSeeds, use_h0 \in BOOLEAN, ofs \in BOOLEAN, zero \in BOOLEAN :
      \E ln \in (IF var = "retention" THEN {<<2, 1>>} ELSE {<<1, 0>>}),
         cl \in (IF var = "delta" THEN {0, 1} ELSE {None}),
         cap \in (IF var = "delta" THEN {InCapability(seed + t + bt)} ELSE {None}) :
        /\ var = "retention" => ~zero
        /\ InitCall(var, t, bt, sh, seed, use_h0, ofs, ln, cl, cap,
                    IF zero THEN Vec(t, LAMBDA i : 0) ELSE InBeta(seed, t))

-----------------------------------------------------------------------------
(* ChunkRetentionFunction.forward and .backward.                           *)

\* chunk_fwd_h_fn up to the kernel launch; forward() passes output_final_state,
\* backward() passes False and keeps only h
Ret_chunk_fwd_h_fn ==
    /\ pc \in {"ret_forward", "ret_fwd_done"}
    /\ final_state' = IF pc = "ret_forward"
                      THEN (IF output_final_state THEN Empty(K, V) ELSE None)
                      ELSE final_state
    /\ h' = Empty(RD.NT * K, V)
    /\ lanes' = [tile \in Tiles(RD) |->
                    [i_t |-> 0, done |-> FALSE,
                     b_h |-> chunk_retention_fwd_kernel_h_init(initial_state, RD, tile[1], tile[2])]]
    /\ pc' = IF pc = "ret_forward" THEN "ret_fwd_kernel_h" ELSE "ret_re_kernel_h"
    /\ UNCHANGED <<callvars, invars, sidevars, pending, w, u, A, v_new, o, ctx, dv, dh, dh0, dv2, dq, dk, dw, dv_out, db>>

\* one iteration of the kernel's loop over chunks
Ret_fwd_kernel_h_iter(tile) ==
    /\ pc \in {"ret_fwd_kernel_h", "ret_re_kernel_h"}
    /\ lanes[tile].i_t < RD.NT
    /\ h' = chunk_retention_fwd_kernel_h_store(h, lanes[tile].b_h, lanes[tile].i_t, RD,
                                               tile[1], tile[2])
    /\ lanes' = [lanes EXCEPT ![tile].i_t = @ + 1,
                              ![tile].b_h = chunk_retention_fwd_kernel_h_update(
                                  @, lanes[tile].i_t, k, v, RD, tile[1], tile[2])]
    /\ UNCHANGED <<callvars, invars, sidevars, pc, pending, w, u, A, v_new, final_state, o, ctx, dv, dh, dh0, dv2, dq, dk, dw, dv_out, db>>

\* after the loop: the final-state store
Ret_fwd_kernel_h_exit(tile) ==
    /\ pc \in {"ret_fwd_kernel_h", "ret_re_kernel_h"}
    /\ lanes[tile].i_t = RD.NT /\ ~lanes[tile].done
    /\ final_state' = IF pc = "ret_fwd_kernel_h"
                      THEN chunk_retention_fwd_kernel_h_final(final_state, lanes[tile].b_h, RD,
                                                              tile[1], tile[2])
                      ELSE final_state
    /\ lanes' = [lanes EXCEPT ![tile].done = TRUE]
    /\ UNCHANGED <<callvars, invars, sidevars, pc, pending, w, u, A, h, v_new, o, ctx, dv, dh, dh0, dv2, dq, dk, dw, dv_out, db>>

\* chunk_fwd_o_fn up to the kernel launch
Ret_chunk_fwd_o_fn ==
    /\ pc = "ret_fwd_kernel_h" /\ AllDone
    /\ o' = Empty(T, V)
    /\ pending' = TasksVT(RD)
    /\ lanes' = NoLanes
    /\ pc' = "ret_fwd_kernel_o"
    /\ UNCHANGED <<callvars, invars, sidevars, w, u, A, h, v_new, final_state, ctx, dv, dh, dh0, dv2, dq, dk, dw, dv_out, db>>

Ret_fwd_kernel_o(task) ==
    /\ pc = "ret_fwd_kernel_o" /\ task \in pending
    /\ o' = chunk_retention_fwd_kernel_o(q, k, v, h, o, RD, task[1], task[2])
    /\ pending' = pending \ {task}
    /\ UNCHANGED <<callvars, invars, sidevars, pc, lanes, w, u, A, h, v_new, final_state, ctx, dv, dh, dh0, dv2, dq, dk, dw, dv_out, db>>

\* forward() returns o and ht; it saves q, k, v, initial_state and drops h
Ret_forward_return ==
    /\ pc = "ret_fwd_kernel_o" /\ pending = {}
    /\ ctx' = [BT |-> BT, scale |-> scale]
    /\ h' = None
    /\ pc' = "ret_fwd_done"
    /\ UNCHANGED <<callvars, invars, sidevars, lanes, pending, w, u, A, v_new, final_state, o, dv, dh, dh0, dv2, dq, dk, dw, dv_out, db>>

\* chunk_bwd_dh_fn up to the kernel launch
Ret_chunk_bwd_dh_fn ==
    /\ pc = "ret_re_kernel_h" /\ AllDone
    /\ dh' = Empty(RD.NT * K, V)
    /\ dh0' = IF initial_state # None THEN Empty(K, V) ELSE None
    /\ lanes' = [tile \in Tiles(RD) |->
                    [i_t |-> RD.NT - 1, done |-> FALSE,
                     b_h |-> chunk_retention_bwd_kernel_dh_init(dht, RD, tile[1], tile[2])]]
    /\ pc' = "ret_bwd_kernel_dh"
    /\ UNCHANGED <<callvars, invars, sidevars, pending, w, u, A, h, v_new, final_state, o, ctx, dv, dv2, dq, dk, dw, dv_out, db>>

Ret_bwd_kernel_dh_iter(tile) ==
    /\ pc = "ret_bwd_kernel_dh"
    /\ lanes[tile].i_t >= 0
    /\ dh' = chunk_retention_bwd_kernel_dh_store(dh, lanes[tile].b_h, lanes[tile].i_t, RD,
                                                 tile[1], tile[2])
    /\ lanes' = [lanes EXCEPT ![tile].i_t = @ - 1,
                              ![tile].b_h = chunk_retention_bwd_kernel_dh_update(
                                  @, lanes[tile].i_t, q, do, RD, tile[1], tile[2])]
    /\ UNCHANGED <<callvars, invars, sidevars, pc, pending, w, u, A, h, v_new, final_state, o, ctx, dv, dh0, dv2, dq, dk, dw, dv_out, db>>

Ret_bwd_kernel_dh_exit(tile) ==
    /\ pc = "ret_bwd_kernel_dh"
    /\ lanes[tile].i_t < 0 /\ ~lanes[tile].done
    /\ dh0' = chunk_retention_bwd_kernel_dh_final(dh0, lanes[tile].b_h, RD, tile[1], tile[2])
    /\ lanes' = [lanes EXCEPT ![tile].done = TRUE]
    /\ UNCHANGED <<callvars, invars, sidevars, pc, pending, w, u, A, h, v_new, final_state, o, ctx, dv, dh, dv2, dq, dk, dw, dv_out, db>>

\* chunk_bwd_dqkv_fn up to the kernel launch
Ret_chunk_bwd_dqkv_fn ==
    /\ pc = "ret_bwd_kernel_dh" /\ AllDone
    /\ dq' = Empty(T, K) /\ dk' = Empty(T, K)
    /\ dv' = Vec(RD.NK, LAMBDA i : Empty(T, V))
    /\ pending' = TasksKT(RD)
    /\ lanes' = NoLanes
    /\ pc' = "ret_bwd_kernel_dqkv"
    /\ UNCHANGED <<callvars, invars, sidevars, w, u, A, h, v_new, final_state, o, ctx, dh, dh0, dv2, dw, dv_out, db>>

Ret_bwd_kernel_dqkv(task) ==
    /\ pc = "ret_bwd_kernel_dqkv" /\ task \in pending
    /\ LET g == chunk_retention_bwd_kernel_dqkv(q, k, v, h, do, dh, dq, dk, dv, RD,
                                                task[1], task[2])
       IN  dq' = g.dq /\ dk' = g.dk /\ dv' = g.dv
    /\ pending' = pending \ {task}
    /\ UNCHANGED <<callvars, invars, sidevars, pc, lanes, w, u, A, h, v_new, final_state, o, ctx, dh, dh0, dv2, dw, dv_out, db>>

\* dv = dv.sum(0), and backward() returns dq, dk, dv, dh0
Ret_backward_return ==
    /\ pc = "ret_bwd_kernel_dqkv" /\ pending = {}
    /\ dv_out' = SumParts(dv, T, V)
    /\ pc' = "ret_done"
    /\ UNCHANGED <<callvars, invars, sidevars, lanes, pending, w, u, A, h, v_new, final_state, o, ctx, dv, dh, dh0, dv2, dq, dk, dw, db>>

-----------------------------------------------------------------------------
(* ChunkDeltaRuleFunction.forward (chunk_delta_rule_fwd) and .backward     *)
(* (chunk_delta_rule_bwd).                                                 *)

Dr_fwd_prepare_wy_repr ==
    /\ pc = "dr_forward"
    /\ LET r == fwd_prepare_wy_repr(k, v, beta, T, BT)
       IN  w' = r.w /\ u' = r.u /\ A' = r.A
    /\ pc' = "dr_fwd_h_fn"
    /\ UNCHANGED <<callvars, invars, sidevars, lanes, pending, h, v_new, final_state, o, ctx, dv, dh, dh0, dv2, dq, dk, dw, dv_out, db>>

\* the launch with the initial state left out when backward recomputes h
Dr_chunk_delta_rule_fwd_h_fn_cold ==
    /\ pc \in {"dr_fwd_h_fn", "dr_re_h_fn"}
    /\ chunk_delta_rule_fwd_h_fn_error(K) = NoError
    /\ final_state' = IF pc = "dr_fwd_h_fn"
                      THEN (IF output_final_state THEN Empty(K, V) ELSE None)
                      ELSE final_state
    /\ h' = Empty(DH.NT * K, V)
    /\ v_new' = Empty(T, V)
    /\ lanes' = [tile \in Tiles(DH) |->
                    [i_t |-> 0, done |-> FALSE,
                     b_h |-> chunk_delta_rule_fwd_kernel_h_init(
                                 IF pc = "dr_fwd_h_fn" THEN initial_state ELSE None,
                                 DH, tile[1], tile[2])]]
    /\ pc' = IF pc = "dr_fwd_h_fn" THEN "dr_fwd_kernel_h" ELSE "dr_re_kernel_h"
    /\ UNCHANGED <<callvars, invars, sidevars, pending, w, u, A, o, ctx, dv, dh, dh0, dv2, dq, dk, dw, dv_out, db>>

\* chunk_delta_rule_fwd_h_fn up to the kernel launch; chunk_delta_rule_fwd passes
\* the final_state buffer it allocated, chunk_delta_rule_bwd passes None
Dr_chunk_delta_rule_fwd_h_fn ==
    /\ pc \in {"dr_fwd_h_fn", "dr_re_h_fn"}
    /\ chunk_delta_rule_fwd_h_fn_error(K) = NoError
    /\ final_state' = IF pc = "dr_fwd_h_fn"
                      THEN (IF output_final_state THEN Empty(K, V) ELSE None)
                      ELSE final_state
    /\ h' = Empty(DH.NT * K, V)
    /\ v_new' = Empty(T, V)
    /\ lanes' = [tile \in Tiles(DH) |->
                    [i_t |-> 0, done |-> FALSE,
                     b_h |-> chunk_delta_rule_fwd_kernel_h_init(initial_state, DH, tile[1], tile[2])]]
    /\ pc' = IF pc = "dr_fwd_h_fn" THEN "dr_fwd_kernel_h" ELSE "dr_re_kernel_h"
    /\ UNCHANGED <<callvars, invars, sidevars, pending, w, u, A, o, ctx, dv, dh, dh0, dv2, dq, dk, dw, dv_out, db>>

Dr_fwd_kernel_h_iter(tile) ==
    /\ pc \in {"dr_fwd_kernel_h", "dr_re_kernel_h"}
    /\ lanes[tile].i_t < DH.NT
    /\ h' = chunk_delta_rule_fwd_kernel_h_store(h, lanes[tile].b_h, lanes[tile].i_t, DH,
                                                tile[1], tile[2])
    /\ LET r == chunk_delta_rule_fwd_kernel_h_update(v_new, lanes[tile].b_h, lanes[tile].i_t,
                                                     k, u, w, DH, tile[1], tile[2])
       IN  /\ v_new' = r.v_new
           /\ lanes' = [lanes EXCEPT ![tile].i_t = @ + 1, ![tile].b_h = r.b_h]
    /\ UNCHANGED <<callvars, invars, sidevars, pc, pending, w, u, A, final_state, o, ctx, dv, dh, dh0, dv2, dq, dk, dw, dv_out, db>>

Dr_fwd_kernel_h_exit(tile) ==
    /\ pc \in {"dr_fwd_kernel_h", "dr_re_kernel_h"}
    /\ lanes[tile].i_t = DH.NT /\ ~lanes[tile].done
    /\ final_state' = IF pc = "dr_fwd_kernel_h"
                      THEN chunk_delta_rule_fwd_kernel_h_final(final_state, lanes[tile].b_h, DH,
                                                               tile[1], tile[2])
                      ELSE final_state
    /\ lanes' = [lanes EXCEPT ![tile].done = TRUE]
    /\ UNCHANGED <<callvars, invars, sidevars, pc, pending, w, u, A, h, v_new, o, ctx, dv, dh, dh0, dv2, dq, dk, dw, dv_out, db>>

Dr_chunk_delta_rule_fwd_o_fn ==
    /\ pc = "dr_fwd_kernel_h" /\ AllDone
    /\ o' = Empty(T, V)
    /\ pending' = TasksVT(DD)
    /\ lanes' = NoLanes
    /\ pc' = "dr_fwd_kernel_o"
    /\ UNCHANGED <<callvars, invars, sidevars, w, u, A, h, v_new, final_state, ctx, dv, dh, dh0, dv2, dq, dk, dw, dv_out, db>>

Dr_fwd_kernel_o(task) ==
    /\ pc = "dr_fwd_kernel_o" /\ task \in pending
    /\ o' = chunk_delta_rule_fwd_kernel_o(q, k, v_new, h, o, DD, task[1], task[2])
    /\ pending' = pending \ {task}
    /\ UNCHANGED <<callvars, invars, sidevars, pc, lanes, w, u, A, h, v_new, final_state, ctx, dv, dh, dh0, dv2, dq, dk, dw, dv_out, db>>

\* chunk_delta_rule_fwd drops h and v_new at checkpoint_level 1; forward() saves
\* q, k, v, beta, A, h, v_new, initial_state; w and u are dropped
Dr_forward_return ==
    /\ pc = "dr_fwd_kernel_o" /\ pending = {}
    /\ LET keep == checkpoint_level # 1
       IN  /\ ctx' = [A |-> A, h |-> IF keep THEN h ELSE None,
                      v_new |-> IF keep THEN v_new ELSE None, BT |-> BT, scale |-> scale]
           /\ h' = IF keep THEN h ELSE None
           /\ v_new' = IF keep THEN v_new ELSE None
    /\ w' = None /\ u' = None
    /\ pc' = "dr_fwd_done"
    /\ UNCHANGED <<callvars, invars, sidevars, lanes, pending, A, final_state, o, dv, dh, dh0, dv2, dq, dk, dw, dv_out, db>>

\* chunk_delta_rule_bwd: w, u are recomputed from the saved A
Dr_fwd_recompute_w_u ==
    /\ pc = "dr_fwd_done"
    /\ LET r == fwd_recompute_w_u(k, v, beta, ctx.A, T, ctx.BT)
       IN  w' = r.w /\ u' = r.u
    /\ pc' = IF ctx.h = None THEN "dr_re_h_fn" ELSE "dr_prepare_dv"
    /\ UNCHANGED <<callvars, invars, sidevars, lanes, pending, A, h, v_new, final_state, o, ctx, dv, dh, dh0, dv2, dq, dk, dw, dv_out, db>>

\* dh0 is allocated, then chunk_delta_rule_fwd_prepare_dv up to the kernel launch
Dr_chunk_delta_rule_fwd_prepare_dv ==
    /\ \/ pc = "dr_prepare_dv"
       \/ pc = "dr_re_kernel_h" /\ AllDone
    /\ dh0' = IF initial_state # None THEN Empty(K, V) ELSE None
    /\ dv' = Empty(T, V)
    /\ pending' = 0 .. DD.NT - 1
    /\ lanes' = NoLanes
    /\ pc' = "dr_kernel_prepare_dv"
    /\ UNCHANGED <<callvars, invars, sidevars, w, u, A, h, v_new, final_state, o, ctx, dh, dv2, dq, dk, dw, dv_out, db>>

Dr_fwd_kernel_prepare_dv(i_t) ==
    /\ pc = "dr_kernel_prepare_dv" /\ i_t \in pending
    /\ dv' = chunk_delta_rule_fwd_kernel_prepare_dv(q, k, do, dv, DD, i_t)
    /\ pending' = pending \ {i_t}
    /\ UNCHANGED <<callvars, invars, sidevars, pc, lanes, w, u, A, h, v_new, final_state, o, ctx, dh, dh0, dv2, dq, dk, dw, dv_out, db>>

\* chunk_delta_rule_bwd_dhu_fn up to the kernel launch
Dr_chunk_delta_rule_bwd_dhu_fn ==
    /\ pc = "dr_kernel_prepare_dv" /\ pending = {}
    /\ chunk_delta_rule_bwd_dhu_fn_error(K) = NoError
    /\ dh' = Empty(DHU.NT * K, V)
    /\ dv2' = Empty(T, V)
    /\ lanes' = [tile \in Tiles(DHU) |->
                    [i_t |-> DHU.NT - 1, done |-> FALSE,
                     b_h |-> chunk_delta_rule_bwd_kernel_dhu_init(dht, DHU, tile[1], tile[2])]]
    /\ pc' = "dr_bwd_kernel_dhu"
    /\ UNCHANGED <<callvars, invars, sidevars, pending, w, u, A, h, v_new, final_state, o, ctx, dv, dh0, dq, dk, dw, dv_out, db>>

\* the iteration storing dh[i_t] after the update instead of before it
Dr_bwd_kernel_dhu_iter_store_late(tile) ==
    /\ pc = "dr_bwd_kernel_dhu"
    /\ lanes[tile].i_t >= 0
    /\ LET r == chunk_delta_rule_bwd_kernel_dhu_update(dv2, lanes[tile].b_h, lanes[tile].i_t,
                                                       q, k, w, do, dv, DHU, tile[1], tile[2])
       IN  /\ dv2' = r.dv2
           /\ dh' = chunk_delta_rule_bwd_kernel_dhu_store(dh, r.b_dh, lanes[tile].i_t, DHU,
                                                          tile[1], tile[2])
           /\ lanes' = [lanes EXCEPT ![tile].i_t = @ - 1, ![tile].b_h = r.b_dh]
    /\ UNCHANGED <<callvars, invars, sidevars, pc, pending, w, u, A, h, v_new, final_state, o, ctx, dv, dh0, dq, dk, dw, dv_out, db>>

Dr_bwd_kernel_dhu_iter(tile) ==
    /\ pc = "dr_bwd_kernel_dhu"
    /\ lanes[tile].i_t >= 0
    /\ dh' = chunk_delta_rule_bwd_kernel_dhu_store(dh, lanes[tile].b_h, lanes[tile].i_t, DHU,
                                                   tile[1], tile[2])
    /\ LET r == chunk_delta_rule_bwd_kernel_dhu_update(dv2, lanes[tile].b_h, lanes[tile].i_t,
                                                       q, k, w, do, dv, DHU, tile[1], tile[2])
       IN  /\ dv2' = r.dv2
           /\ lanes' = [lanes EXCEPT ![tile].i_t = @ - 1, ![tile].b_h = r.b_dh]
    /\ UNCHANGED <<callvars, invars, sidevars, pc, pending, w, u, A, h, v_new, final_state, o, ctx, dv, dh0, dq, dk, dw, dv_out, db>>

Dr_bwd_kernel_dhu_exit(tile) ==
    /\ pc = "dr_bwd_kernel_dhu"
    /\ lanes[tile].i_t < 0 /\ ~lanes[tile].done
    /\ dh0' = chunk_delta_rule_bwd_kernel_dhu_final(dh0, lanes[tile].b_h, DHU, tile[1], tile[2])
    /\ lanes' = [lanes EXCEPT ![tile].done = TRUE]
    /\ UNCHANGED <<callvars, invars, sidevars, pc, pending, w, u, A, h, v_new, final_state, o, ctx, dv, dh, dv2, dq, dk, dw, dv_out, db>>

\* chunk_delta_rule_bwd_dqkw_fn up to the kernel launch
Dr_chunk_delta_rule_bwd_dqkw_fn ==
    /\ pc = "dr_bwd_kernel_dhu" /\ AllDone
    /\ dq' = Empty(T, K) /\ dk' = Empty(T, K) /\ dw' = Empty(T, K)
    /\ pending' = TasksKT(DD)
    /\ lanes' = NoLanes
    /\ pc' = "dr_bwd_kernel_dqkw"
    /\ UNCHANGED <<callvars, invars, sidevars, w, u, A, h, v_new, final_state, o, ctx, dv, dh, dh0, dv2, dv_out, db>>

Dr_bwd_kernel_dqkw(task) ==
    /\ pc = "dr_bwd_kernel_dqkw" /\ task \in pending
    /\ LET g == chunk_delta_rule_bwd_kernel_dqkw(q, k, v_new, h, do, dh, dq, dk, dv2, dw, DD,
                                                 task[1], task[2])
       IN  dq' = g.dq /\ dk' = g.dk /\ dw' = g.dw
    /\ pending' = pending \ {task}
    /\ UNCHANGED <<callvars, invars, sidevars, pc, lanes, w, u, A, h, v_new, final_state, o, ctx, dv, dh, dh0, dv2, dv_out, db>>

\* bwd_prepare_wy_repr, dk.add_(dk2), and backward() returns dq, dk, dv, db, dh0
Dr_bwd_prepare_wy_repr ==
    /\ pc = "dr_bwd_kernel_dqkw" /\ pending = {}
    /\ LET y == bwd_prepare_wy_repr(k, v, beta, ctx.A, dw, dv2, T, ctx.BT)
       IN  /\ dk' = MAdd(dk, y.dk)
           /\ dv_out' = y.dv
           /\ db' = y.db
    /\ pc' = "dr_done"
    /\ UNCHANGED <<callvars, invars, sidevars, lanes, pending, w, u, A, h, v_new, final_state, o, ctx, dv, dh, dh0, dv2, dq, dw>>

-----------------------------------------------------------------------------

Next ==
    \/ Ret_chunk_fwd_h_fn
    \/ \E tile \in DOMAIN lanes : Ret_fwd_kernel_h_iter(tile)
    \/ \E tile \in DOMAIN lanes : Ret_fwd_kernel_h_exit(tile)
    \/ Ret_chunk_fwd_o_fn
    \/ \E task \in pending : Ret_fwd_kernel_o(task)
    \/ Ret_forward_return
    \/ Ret_chunk_bwd_dh_fn
    \/ \E tile \in DOMAIN lanes : Ret_bwd_kernel_dh_iter(tile)
    \/ \E tile \in DOMAIN lanes : Ret_bwd_kernel_dh_exit(tile)
    \/ Ret_chunk_bwd_dqkv_fn
    \/ \E task \in pending : Ret_bwd_kernel_dqkv(task)
    \/ Ret_backward_return
    \/ Dr_fwd_prepare_wy_repr
    \/ Dr_chunk_delta_rule_fwd_h_fn
    \/ \E tile \in DOMAIN lanes : Dr_fwd_kernel_h_iter(tile)
    \/ \E tile \in DOMAIN lanes : Dr_fwd_kernel_h_exit(tile)
    \/ Dr_chunk_delta_rule_fwd_o_fn
    \/ \E task \in pending : Dr_fwd_kernel_o(task)
    \/ Dr_forward_return
    \/ Dr_fwd_recompute_w_u
    \/ Dr_chunk_delta_rule_fwd_prepare_dv
    \/ \E i_t \in pending : Dr_fwd_kernel_prepare_dv(i_t)
    \/ Dr_chunk_delta_rule_bwd_dhu_fn
    \/ \E tile \in DOMAIN lanes : Dr_bwd_kernel_dhu_iter(tile)
    \/ \E tile \in DOMAIN lanes : Dr_bwd_kernel_dhu_exit(tile)
    \/ Dr_chunk_delta_rule_bwd_dqkw_fn
    \/ \E task \in pending : Dr_bwd_kernel_dqkw(task)
    \/ Dr_bwd_prepare_wy_repr

Spec == Init /\ [][Next]_vars

SpecEdge == InitEdge /\ [][Next]_vars

-----------------------------------------------------------------------------
(* The drivers' control flow: which checks run, which kernels and           *)
(* collaborators are dispatched, and in which order. d_launched lists the   *)
(* dispatched device work, d_written the buffers it has written.            *)

Dtypes == {"float32", "bfloat16", "float16"}
\* feature dimensions around the tile limits
DrvKs == {1, 64, 128, 129, 256, 257, 512}
\* the functions a caller enters
Entries == {"chunk_retention", "chunk_delta_rule", "ChunkDeltaRuleFunction.apply",
            "chunk_delta_rule_fwd_h_fn", "chunk_delta_rule_bwd_dhu_fn"}

InitDrv ==
    /\ d_call \in [entry : Entries, dtype : Dtypes, same_dtype : BOOLEAN, q_dim : {3, 4},
                   beta_dim : {2, 3}, K : DrvKs, checkpoint_level : {0, 1}]
    /\ d_call.entry # "chunk_delta_rule" => d_call.beta_dim = 3
    \* only a caller of ChunkDeltaRuleFunction.apply chooses the checkpoint level
    /\ d_call.entry # "ChunkDeltaRuleFunction.apply" => d_call.checkpoint_level = 1
    /\ d_call.entry # "chunk_retention" => d_call.q_dim = 4
    /\ d_call.entry \notin {"chunk_retention", "chunk_delta_rule"} =>
           d_call.dtype = "bfloat16" /\ d_call.same_dtype
    /\ d_pc = IF d_call.entry = "ChunkDeltaRuleFunction.apply" THEN "dr_fwd_prepare_wy_repr"
              ELSE d_call.entry
    /\ d_launched = <<>> /\ d_written = {} /\ d_error = None
    /\ variant = None /\ T = None /\ K = None /\ V = None /\ H = None /\ i_bh = None
    /\ BT = None /\ scale = None /\ output_final_state = None /\ checkpoint_level = None
    /\ capability = None
    /\ q = None /\ k = None /\ v = None /\ beta = None /\ initial_state = None
    /\ do = None /\ dht = None
    /\ pc = None /\ lanes = None /\ pending = None
    /\ w = None /\ u = None /\ A = None /\ h = None /\ v_new = None
    /\ final_state = None /\ o = None /\ ctx = None
    /\ dv = None /\ dh = None /\ dh0 = None /\ dv2 = None /\ dq = None /\ dk = None
    /\ dw = None /\ dv_out = None /\ db = None
    /\ GridIdle /\ RateIdle

numvars == <<callvars, invars, pc, lanes, pending, fwdbufs, ctx, bwdbufs, gridvars, ratevars>>

\* an assertion fails: the call ends with the error, nothing is dispatched
Abort(err) ==
    /\ d_error' = err
    /\ d_pc' = "aborted"
    /\ UNCHANGED <<d_call, d_launched, d_written, numvars>>

\* a kernel or collaborator is dispatched and writes its outputs
Launch(name, outputs, next) ==
    /\ d_launched' = Append(d_launched, name)
    /\ d_written' = d_written \cup outputs
    /\ d_pc' = next
    /\ UNCHANGED <<d_call, d_error, numvars>>

\* chunk_retention: the two assertions, then ChunkRetentionFunction.apply
Drv_chunk_retention ==
    /\ d_pc = "chunk_retention"
    /\ IF d_call.q_dim # 4 THEN Abort("q, k, v must have 4 dimensions")
       ELSE IF ~d_call.same_dtype THEN Abort("q, k, v must have the same dtype")
       ELSE /\ d_pc' = "ret_chunk_fwd_h_fn"
            /\ UNCHANGED <<d_call, d_launched, d_written, d_error, numvars>>

\* chunk_fwd_h_fn, in forward() and again in backward(); it asserts nothing
Drv_chunk_fwd_h_fn ==
    /\ d_pc \in {"ret_chunk_fwd_h_fn", "ret_re_chunk_fwd_h_fn"}
    /\ Launch("chunk_retention_fwd_kernel_h", {"h"},
              IF d_pc = "ret_chunk_fwd_h_fn" THEN "ret_chunk_fwd_o_fn" ELSE "ret_chunk_bwd_dh_fn")

Drv_chunk_fwd_o_fn ==
    /\ d_pc = "ret_chunk_fwd_o_fn"
    /\ Launch("chunk_retention_fwd_kernel_o", {"o"}, "ret_re_chunk_fwd_h_fn")

Drv_chunk_bwd_dh_fn ==
    /\ d_pc = "ret_chunk_bwd_dh_fn"
    /\ Launch("chunk_retention_bwd_kernel_dh", {"dh"}, "ret_chunk_bwd_dqkv_fn")

Drv_chunk_bwd_dqkv_fn ==
    /\ d_pc = "ret_chunk_bwd_dqkv_fn"
    /\ Launch("chunk_retention_bwd_kernel_dqkv", {"dq", "dk", "dv"}, "returned")

\* chunk_delta_rule: the three assertions, then ChunkDeltaRuleFunction.apply
Drv_chunk_delta_rule ==
    /\ d_pc = "chunk_delta_rule"
    /\ IF ~d_call.same_dtype THEN Abort("q, k, v must have the same dtype")
       ELSE IF d_call.dtype = "float32"
            THEN Abort("ChunkDeltaRuleFunction does not support float32")
       ELSE IF d_call.beta_dim # 3 THEN Abort("beta must be of shape (B, H, T)")
       ELSE /\ d_pc' = "dr_fwd_prepare_wy_repr"
            /\ UNCHANGED <<d_call, d_launched, d_written, d_error, numvars>>

\* chunk_delta_rule_fwd, its first call: the WY representation
Drv_fwd_prepare_wy_repr ==
    /\ d_pc = "dr_fwd_prepare_wy_repr"
    /\ Launch("fwd_prepare_wy_repr", {"w", "u", "A"}, "dr_chunk_delta_rule_fwd_h_fn")

\* chunk_delta_rule_fwd_h_fn: called by a caller, by chunk_delta_rule_fwd, or
\* by chunk_delta_rule_bwd when no h was saved
Drv_chunk_delta_rule_fwd_h_fn ==
    /\ d_pc \in {"chunk_delta_rule_fwd_h_fn", "dr_chunk_delta_rule_fwd_h_fn",
                 "dr_re_chunk_delta_rule_fwd_h_fn"}
    /\ IF chunk_delta_rule_fwd_h_fn_error(d_call.K) # NoError
       THEN Abort(chunk_delta_rule_fwd_h_fn_error(d_call.K))
       ELSE Launch("chunk_delta_rule_fwd_kernel_h", {"h", "v_new"},
                   IF d_pc = "chunk_delta_rule_fwd_h_fn" THEN "returned"
                   ELSE IF d_pc = "dr_chunk_delta_rule_fwd_h_fn"
                        THEN "dr_chunk_delta_rule_fwd_o_fn"
                   ELSE "dr_chunk_delta_rule_fwd_prepare_dv")

Drv_chunk_delta_rule_fwd_o_fn ==
    /\ d_pc = "dr_chunk_delta_rule_fwd_o_fn"
    /\ Launch("chunk_delta_rule_fwd_kernel_o", {"o"}, "dr_fwd_recompute_w_u")

\* chunk_delta_rule_bwd, its first call; h is None when checkpoint_level is 1
Drv_fwd_recompute_w_u ==
    /\ d_pc = "dr_fwd_recompute_w_u"
    /\ Launch("fwd_recompute_w_u", {"w", "u"},
              IF d_call.checkpoint_level = 1 THEN "dr_re_chunk_delta_rule_fwd_h_fn"
              ELSE "dr_chunk_delta_rule_fwd_prepare_dv")

Drv_chunk_delta_rule_fwd_prepare_dv ==
    /\ d_pc = "dr_chunk_delta_rule_fwd_prepare_dv"
    /\ Launch("chunk_delta_rule_fwd_kernel_prepare_dv", {"dv"}, "dr_chunk_delta_rule_bwd_dhu_fn")

\* chunk_delta_rule_bwd_dhu_fn: called by a caller or by chunk_delta_rule_bwd
Drv_chunk_delta_rule_bwd_dhu_fn ==
    /\ d_pc \in {"chunk_delta_rule_bwd_dhu_fn", "dr_chunk_delta_rule_bwd_dhu_fn"}
    /\ IF chunk_delta_rule_bwd_dhu_fn_error(d_call.K) # NoError
       THEN Abort(chunk_delta_rule_bwd_dhu_fn_error(d_call.K))
       ELSE Launch("chunk_delta_rule_bwd_kernel_dhu", {"dh", "dv2"},
                   IF d_pc = "chunk_delta_rule_bwd_dhu_fn" THEN "returned"
                   ELSE "dr_chunk_delta_rule_bwd_dqkw_fn")

Drv_chunk_delta_rule_bwd_dqkw_fn ==
    /\ d_pc = "dr_chunk_delta_rule_bwd_dqkw_fn"
    /\ Launch("chunk_delta_rule_bwd_kernel_dqkw", {"dq", "dk", "dw"}, "dr_bwd_prepare_wy_repr")

Drv_bwd_prepare_wy_repr ==
    /\ d_pc = "dr_bwd_prepare_wy_repr"
    /\ Launch("bwd_prepare_wy_repr", {"dk", "dv", "db"}, "returned")

NextDrv ==
    \/ Drv_chunk_retention
    \/ Drv_chunk_fwd_h_fn
    \/ Drv_chunk_fwd_o_fn
    \/ Drv_chunk_bwd_dh_fn
    \/ Drv_chunk_bwd_dqkv_fn
    \/ Drv_chunk_delta_rule
    \/ Drv_fwd_prepare_wy_repr
    \/ Drv_chunk_delta_rule_fwd_h_fn
    \/ Drv_chunk_delta_rule_fwd_o_fn
    \/ Drv_fwd_recompute_w_u
    \/ Drv_chunk_delta_rule_fwd_prepare_dv
    \/ Drv_chunk_delta_rule_bwd_dhu_fn
    \/ Drv_chunk_delta_rule_bwd_dqkw_fn
    \/ Drv_bwd_prepare_wy_repr

SpecDrv == InitDrv /\ [][NextDrv]_vars

-----------------------------------------------------------------------------
(* What the claims are stated over.                                        *)

\* rows a .. a+n-1 of a tensor whose first axis is time
RowsOf(M, a, n) == Vec(n, LAMBDA i : M[a + i + 1])

\* the tensor with every position after t replaced by another value
Replaced(M, t, p) ==
    Mat(Rows(M), Cols(M),
        LAMBDA i, j : IF i > t THEN Add(At(M, i, j), p + ((i + j) % 2)) ELSE At(M, i, j))

\* the forward pass of the called variant as a function of its inputs
ForwardPass(q_, k_, v_, beta_, h0, ofs, T_, BT_) ==
    IF variant = "retention"
    THEN ChunkRetentionForward(q_, k_, v_, h0, RetDims(T_, K, V, H, i_bh, BT_, scale), ofs)
    ELSE LET r == chunk_delta_rule_fwd(q_, k_, v_, beta_, scale, h0, ofs, 1, T_, K, V, BT_,
                                       capability)
         IN  [o |-> r.o, final_state |-> r.final_state]

\* state engine followed by output engine
CorePass(q_, k_, v_, w_, u_) ==
    IF variant = "retention"
    THEN ChunkRetentionForward(q_, k_, v_, initial_state, RD, output_final_state)
    ELSE LET r == DeltaCoreForward(q_, k_, w_, u_, initial_state, output_final_state,
                                   T, K, V, BT, scale, capability)
         IN  [o |-> r.o, final_state |-> r.final_state]

\* the output engine has written position t
OutputWritten(t) ==
    /\ pc \in {"ret_fwd_kernel_o", "dr_fwd_kernel_o"}
    /\ \A task \in pending : task[2] # t \div BT

\* how many replacement patterns a position is tried with
NReplacements == 2

\* the output at position t after the inputs at the later positions are replaced
OutputReplacedAfter(t, p) ==
    IF variant = "retention"
    THEN CorePass(Replaced(q, t, p), Replaced(k, t, p), Replaced(v, t, p), None, None).o[t + 1]
    ELSE CorePass(Replaced(q, t, p), Replaced(k, t, p), None,
                  Replaced(w, t, p), Replaced(u, t, p)).o[t + 1]

\* C1: causality of the forward pass. In both variants, every output row the
\* output engine has written at position t is the row the state and output
\* engines produce when q, k, v (delta rule: q, k, w, u) at every position after
\* t, in the same chunk or in a later one, are replaced by other values.
C1_Causality ==
    \A t \in 0 .. T - 1 :
        OutputWritten(t) =>
            \A p \in 1 .. NReplacements : o[t + 1] = OutputReplacedAfter(t, p)

\* the delta rule has written every output of a three-position call in chunks of
\* two: position 0 has a later position in its chunk and one in the next chunk,
\* and replacing them changes the output at the last position
C1_Witness ==
    /\ variant = "delta" /\ pc = "dr_fwd_kernel_o" /\ pending = {}
    /\ T = 3 /\ BT = 2
    /\ CorePass(Replaced(q, 0, 1), Replaced(k, 0, 1), None,
                Replaced(w, 0, 1), Replaced(u, 0, 1)).o[3] # o[3]

\* the forward pass has returned
ForwardReturned ==
    pc \notin {"ret_forward", "ret_fwd_kernel_h", "ret_fwd_kernel_o",
               "dr_forward", "dr_fwd_h_fn", "dr_fwd_kernel_h", "dr_fwd_kernel_o"}
\* the forward pass has just returned
AtForwardReturn == pc \in {"ret_fwd_done", "dr_fwd_done"}

\* the forward pass over [0, T1) with the final state asked for, then over
\* [T1, T) from that state: [o, final_state]
Chained(T1) ==
    LET b1 == IF variant = "delta" THEN RowsOf(beta, 0, T1) ELSE None
        b2 == IF variant = "delta" THEN RowsOf(beta, T1, T - T1) ELSE None
        first == ForwardPass(RowsOf(q, 0, T1), RowsOf(k, 0, T1), RowsOf(v, 0, T1), b1,
                             initial_state, TRUE, T1, BT)
        second == ForwardPass(RowsOf(q, T1, T - T1), RowsOf(k, T1, T - T1),
                              RowsOf(v, T1, T - T1), b2,
                              first.final_state, output_final_state, T - T1, BT)
    IN  Then(first, Then(second,
            [o |-> first.o \o second.o, final_state |-> second.final_state]))

\* C2: state-chain correctness. When the forward pass over [0, T) returns, for
\* every split point 0 < T1 < T, a multiple of the chunk size or not, the pass
\* over [0, T1) with output_final_state set followed by the pass over [T1, T)
\* from the returned state gives the same output at every position and the same
\* final state.
C2_StateChain ==
    AtForwardReturn =>
        \A T1 \in 1 .. T - 1 :
            /\ Chained(T1).o = o
            /\ Chained(T1).final_state = final_state

\* a retention pass over three positions in chunks of two has returned a final
\* state; the split at 1 is inside the first chunk, and the state handed over
\* there is neither the initial state nor the final one
C2_Witness ==
    /\ variant = "retention" /\ pc = "ret_fwd_done"
    /\ T = 3 /\ BT = 2 /\ output_final_state /\ initial_state # None
    /\ LET mid == ForwardPass(RowsOf(q, 0, 1), RowsOf(k, 0, 1), RowsOf(v, 0, 1), None,
                              initial_state, TRUE, 1, BT).final_state
       IN  mid # initial_state /\ mid # final_state

\* C5: chunk-size invariance. When the forward pass returns, the output at
\* every position and the final state are those of the forward pass run on the
\* same inputs and initial state with every other chunk size: 1, 2, 4 and T
\* (a single chunk).
C5_ChunkSizeInvariance ==
    AtForwardReturn =>
        \A bt \in ChunkSizes \cup {T} :
            LET r == ForwardPass(q, k, v, beta, initial_state, output_final_state, T, bt)
            IN  r.o = o /\ r.final_state = final_state

\* a delta-rule pass over three positions in chunks of two (a full and a partial
\* chunk) has returned a non-zero final state
C5_Witness ==
    /\ variant = "delta" /\ pc = "dr_fwd_done"
    /\ T = 3 /\ BT = 2 /\ output_final_state
    /\ final_state # Zeros(K, V)

-----------------------------------------------------------------------------
(* The recurrences the engines implement, position by position (retention) *)
(* and chunk by chunk on given w, u (delta rule).                          *)

Sum(lo, hi, F(_)) == SumSeq(Vec(hi - lo + 1, LAMBDA x : F(lo + x)))

\* the supplied initial state, zero if absent
State0 == IF initial_state # None THEN initial_state ELSE Zeros(K, V)

\* retention: the state after the first n positions,
\* S = rate * S + k[t]^T v[t] at every position
RECURSIVE RetentionState(_)
RetentionState(n) ==
    IF n = 0 THEN State0
    ELSE LET S == RetentionState(n - 1)
         IN  Then(S, Mat(K, V, LAMBDA a, b :
                         Add(Mul(Rate(i_bh % H), At(S, a, b)),
                             Mul(At(k, n - 1, a), At(v, n - 1, b)))))

\* delta rule: the state after the first i chunks,
\* S = S + k_c^T (u_c - w_c S) at every chunk c
RECURSIVE DeltaState(_)
DeltaState(i) ==
    IF i = 0 THEN State0
    ELSE LET S == DeltaState(i - 1)
             lo == (i - 1) * BT
             hi == Min(T, i * BT) - 1
             vn(t, b) == Sub(At(u, t, b), Sum(0, K - 1, LAMBDA a : Mul(At(w, t, a), At(S, a, b))))
         IN  Then(S, Mat(K, V, LAMBDA a, b :
                         Add(At(S, a, b), Sum(lo, hi, LAMBDA t : Mul(At(k, t, a), vn(t, b))))))

\* the running state before chunk i
RunningState(i) ==
    IF variant = "retention" THEN RetentionState(Min(T, i * BT)) ELSE DeltaState(i)

\* the tensors the recurrence reads are at hand
RecurrenceInputs == variant = "retention" \/ (w # None /\ u # None)

\* the state engine of the forward pass has finished
StateEngineDone == pc \in {"ret_fwd_kernel_o", "dr_fwd_kernel_o"} \/ ForwardReturned

\* C7: final state. Once the forward pass has returned, the final state is None
\* exactly when output_final_state is not set; and once the state engine has
\* finished, a final state that was asked for is the initial state (zero if
\* absent) updated by all NT chunks in order: for retention the state of the
\* position-by-position recurrence after T positions, so a partial last chunk
\* counts T mod BT positions, not BT.
C7_FinalState ==
    /\ ForwardReturned => ((final_state = None) <=> ~output_final_state)
    /\ (StateEngineDone /\ output_final_state /\ RecurrenceInputs) =>
           final_state = RunningState(Cdiv(T, BT))

\* retention over three positions in chunks of two has returned a final state,
\* and decaying the partial last chunk over the full chunk size gives another
C7_Witness ==
    /\ variant = "retention" /\ pc = "ret_fwd_done"
    /\ T = 3 /\ BT = 2 /\ output_final_state
    /\ final_state = RetentionState(3)
    /\ final_state #
           MAdd(MScale(Exp2b(i_bh % H, 2), RetentionState(2)),
                Mat(K, V, LAMBDA a, b : Mul(Exp2b(i_bh % H, 1), Mul(At(k, 2, a), At(v, 2, b)))))

\* a state engine of the forward pass is running
InStateEngine ==
    pc \in {"ret_fwd_kernel_h", "ret_re_kernel_h", "dr_fwd_kernel_h", "dr_re_kernel_h"}

\* every lane has stored its tile of snapshot i
SnapshotWritten(i) ==
    /\ h # None
    /\ InStateEngine => \A tile \in DOMAIN lanes : lanes[tile].i_t > i

\* C8: snapshots are taken before the update. Every stored snapshot h[i], in the
\* forward pass and in the recomputation of the backward pass, is the initial
\* state (zero if absent) updated by exactly the chunks 0 .. i-1 in order; h[0]
\* is the initial state.
C8_SnapshotBeforeUpdate ==
    \A i \in 0 .. Cdiv(T, BT) - 1 :
        (SnapshotWritten(i) /\ RecurrenceInputs) =>
            /\ RowsOf(h, i * K, K) = RunningState(i)
            /\ i = 0 => RowsOf(h, 0, K) = State0

\* the delta-rule state engine has stored the snapshots of chunks 0 and 1 and has
\* not finished; the two differ, and the first is the supplied initial state
C8_Witness ==
    /\ variant = "delta" /\ pc = "dr_fwd_kernel_h" /\ T = 3 /\ BT = 1
    /\ initial_state # None
    /\ \A tile \in DOMAIN lanes : lanes[tile].i_t = 2
    /\ RowsOf(h, 0, K) = initial_state
    /\ RowsOf(h, K, K) # RowsOf(h, 0, K)

-----------------------------------------------------------------------------
(* The loss the gradients are taken of.                                    *)

\* sum(a * b) over all entries
MDot(a, b) == Sum(0, Rows(a) - 1, LAMBDA i : Sum(0, Cols(a) - 1, LAMBDA j :
                  Mul(At(a, i, j), At(b, i, j))))

\* the tensor with entry (i, j) raised by one
Raised(M, i, j) ==
    Mat(Rows(M), Cols(M), LAMBDA a, b : IF a = i /\ b = j THEN Add(At(M, a, b), 1) ELSE At(M, a, b))

\* L = sum(do * o) + sum(dht * final_state) of a forward result
LossOf(r) ==
    Then(r, Add(MDot(do, r.o), IF dht # None THEN MDot(dht, r.final_state) ELSE 0))

\* retention: L as a function of q, k, v and the initial state
RetentionLoss(q_, k_, v_, h0) ==
    LossOf(ChunkRetentionForward(q_, k_, v_, h0, RD, output_final_state))

\* delta rule: L as a function of q, k, w, u and the initial state
DeltaLoss(q_, k_, w_, u_, h0) ==
    LossOf(DeltaCoreForward(q_, k_, w_, u_, h0, output_final_state,
                            T, K, V, BT, scale, capability))

\* L is affine in each single entry of each input, so its partial derivative is
\* the exact difference L(x + e) - L(x); Partial(M, L) is the tensor of these
Partial(M, L(_)) ==
    LET base == L(M)
    IN  Then(base, Mat(Rows(M), Cols(M), LAMBDA i, j : Sub(L(Raised(M, i, j)), base)))

\* C4: gradient correctness of retention. When backward returns, for every T
\* (a multiple of the chunk size or not) and every head, dq, dk, dv and the
\* initial-state gradient dh0 are the partial derivatives of
\* L = sum(do * o) + sum(dht * final_state) in q, k, v and the initial state.
C4_RetentionGradients ==
    pc = "ret_done" =>
        /\ dq = Partial(q, LAMBDA x : RetentionLoss(x, k, v, initial_state))
        /\ dk = Partial(k, LAMBDA x : RetentionLoss(q, x, v, initial_state))
        /\ dv_out = Partial(v, LAMBDA x : RetentionLoss(q, k, x, initial_state))
        /\ initial_state # None =>
               dh0 = Partial(initial_state, LAMBDA x : RetentionLoss(q, k, v, x))

\* retention backward has returned for three positions in chunks of two of the
\* second head, with an initial state and a final-state gradient; no gradient
\* is zero
C4_Witness ==
    /\ pc = "ret_done" /\ T = 3 /\ BT = 2 /\ i_bh % H = 1
    /\ initial_state # None /\ dht # None
    /\ dq # Zeros(T, K) /\ dk # Zeros(T, K) /\ dv_out # Zeros(T, V) /\ dh0 # Zeros(K, V)

\* the gradient engines of the delta-rule core have finished
CoreBackwardDone == pc = "dr_bwd_kernel_dqkw" /\ pending = {}

\* C3: gradient correctness of the delta-rule core. With w and u as inputs, when
\* the gradient engines have finished, for every T (a partial last chunk
\* included), dq, the core part of dk, dw, dv2 and dh0 are the partial
\* derivatives of L = sum(do * o) + sum(dht * final_state) in q, k, w, u and the
\* initial state, o and final_state being those of the state and output engines.
C3_DeltaCoreGradients ==
    CoreBackwardDone =>
        /\ dq = Partial(q, LAMBDA x : DeltaLoss(x, k, w, u, initial_state))
        /\ dk = Partial(k, LAMBDA x : DeltaLoss(q, x, w, u, initial_state))
        /\ dw = Partial(w, LAMBDA x : DeltaLoss(q, k, x, u, initial_state))
        /\ dv2 = Partial(u, LAMBDA x : DeltaLoss(q, k, w, x, initial_state))
        /\ initial_state # None =>
               dh0 = Partial(initial_state, LAMBDA x : DeltaLoss(q, k, w, u, x))

\* the gradient engines have finished for three positions in chunks of two, with
\* an initial state and a final-state gradient; no gradient is zero
C3_Witness ==
    /\ CoreBackwardDone /\ T = 3 /\ BT = 2
    /\ initial_state # None /\ dht # None
    /\ dq # Zeros(T, K) /\ dk # Zeros(T, K) /\ dw # Zeros(T, K)
    /\ dv2 # Zeros(T, V) /\ dh0 # Zeros(K, V)

\* the whole call, forward then backward, at checkpoint level cl
DeltaCall(cl) ==
    LET f == chunk_delta_rule_fwd(q, k, v, beta, scale, initial_state, output_final_state, cl,
                                  T, K, V, BT, capability)
        b == chunk_delta_rule_bwd(q, k, v, beta, f.A, f.h, f.v_new, scale, initial_state,
                                  do, dht, T, K, V, BT, capability)
    IN  Then(f, Then(b, [o |-> f.o, final_state |-> f.final_state, saved_h |-> f.h,
                         saved_v_new |-> f.v_new, dq |-> b.dq, dk |-> b.dk, dv |-> b.dv,
                         db |-> b.db, dh0 |-> b.dh0]))

\* C6: checkpoint equivalence of the delta rule. A call at checkpoint level 0
\* and the same call at level 1 give the same output and the same gradients dq,
\* dk, dv, dbeta and dh0, and the snapshots H[] and corrected values that
\* backward recomputes at level 1 are the ones forward produces and saves at
\* level 0.
C6_CheckpointEquivalence ==
    pc = "dr_done" =>
        LET other == DeltaCall(1 - checkpoint_level)
            saving == DeltaCall(0)
        IN  /\ o = other.o
            /\ final_state = other.final_state
            /\ dq = other.dq /\ dk = other.dk /\ dv_out = other.dv /\ db = other.db
            /\ dh0 = other.dh0
            /\ checkpoint_level = 1 =>
                   /\ ctx.h = None /\ ctx.v_new = None
                   /\ h = saving.saved_h /\ v_new = saving.saved_v_new

\* a call at level 1 has returned from backward, which recomputed the snapshots
\* of two chunks from a given initial state
C6_Witness ==
    /\ pc = "dr_done" /\ checkpoint_level = 1 /\ ctx.h = None
    /\ initial_state # None /\ T = 3 /\ BT = 2
    /\ Rows(h) = 2 * K /\ dq # Zeros(T, K) /\ db # Vec(T, LAMBDA i : 0)

-----------------------------------------------------------------------------
(* Validation and configuration errors.                                    *)

DriverCall == d_call.entry \in {"chunk_retention", "chunk_delta_rule"}
\* a caller has called a state engine's host function itself
HostCall == d_call.entry \in {"chunk_delta_rule_fwd_h_fn", "chunk_delta_rule_bwd_dhu_fn"}
ConfigurationErrors == {"BK > 256", "NK > 1"}
\* a state engine's host function has run to its end, failing or not
StateEngineFailed == d_pc = "aborted" /\ d_error \in ConfigurationErrors
StateEnginePassed ==
    \/ "chunk_delta_rule_fwd_kernel_h" \in {d_launched[i] : i \in 1 .. Len(d_launched)}
    \/ "chunk_delta_rule_bwd_kernel_dhu" \in {d_launched[i] : i \in 1 .. Len(d_launched)}
\* the buffers the state engines write
StateEngineBuffers == {"h", "v_new", "dh", "dv2"}
\* the number of K-tiles of the tile size the host functions choose
DrvNK == Cdiv(d_call.K, NextPow2(d_call.K))

\* C9: validation precedes all device work. A driver call that ends in a
\* configuration, precision or shape error has dispatched no kernel and no
\* collaborator call.
C9_ValidationFirst ==
    (DriverCall /\ d_pc = "aborted") => d_launched = <<>>

\* C10 as stated: a state engine's host function fails exactly when the number
\* of K-tiles is not 1, writes nothing when it fails, and does not fail for a K
\* that a single tile covers.
C10_FailsIffSeveralTiles ==
    /\ StateEngineFailed => DrvNK # 1 /\ d_written \cap StateEngineBuffers = {}
    /\ (HostCall /\ d_pc \in {"aborted", "returned"} /\ DrvNK = 1) => ~StateEngineFailed

\* C10: configuration error of the delta-rule state engines.
\* chunk_delta_rule_fwd_h_fn and chunk_delta_rule_bwd_dhu_fn fail exactly when
\* the K-tile size next_power_of_2(K) exceeds 256; the tile always covers K,
\* so the number of K-tiles is 1 whether they fail or not. A failing call
\* dispatches no kernel and writes no snapshot or corrected value.
C10_FailsIffTileTooWide ==
    /\ DrvNK = 1
    /\ StateEngineFailed =>
           /\ NextPow2(d_call.K) > DeltaMaxBK
           /\ d_error = "BK > 256"
           /\ d_written \cap StateEngineBuffers = {}
           /\ HostCall => d_launched = <<>>
    /\ StateEnginePassed => NextPow2(d_call.K) <= DeltaMaxBK
    /\ (HostCall /\ d_pc \in {"aborted", "returned"}) =>
           (StateEngineFailed <=> NextPow2(d_call.K) > DeltaMaxBK)

\* chunk_delta_rule_bwd_dhu_fn, called with K = 257, has failed although one
\* tile of 512 covers K
C10_Witness ==
    /\ d_call.entry = "chunk_delta_rule_bwd_dhu_fn" /\ d_call.K = 257
    /\ StateEngineFailed /\ DrvNK = 1 /\ d_written = {}

\* a driver has passed its validation and entered the autograd function
Applied == d_pc \notin {"chunk_retention", "chunk_delta_rule", "aborted"}

\* C11: precision error. A call of chunk_retention or chunk_delta_rule whose
\* q, k, v are float32 is rejected before the autograd function is applied: it
\* never enters the function and dispatches no device work.
C11_Float32Rejected ==
    (DriverCall /\ d_call.dtype = "float32") => (~Applied /\ d_launched = <<>>)

-----------------------------------------------------------------------------
(* Kernel grids at full tile sizes: the blocks every program loads and     *)
(* stores. The engine functions of one variant are called one after the    *)
(* other with the same chunk-size argument; the programs of a grid run in  *)
(* any order.                                                              *)

\* the chunk size the backward host functions of retention launch with
\* (BT = 64 replaces the argument of chunk_bwd_dh_fn; chunk_bwd_dqkv_fn takes none)
RetBwdBT == 64

chunk_fwd_h_fn_dims(T_, K_, V_, H_, BT_) == RetDims(T_, K_, V_, H_, 0, BT_, 1)
chunk_fwd_o_fn_dims(T_, K_, V_, H_, BT_) == RetDims(T_, K_, V_, H_, 0, BT_, 1)
chunk_bwd_dh_fn_dims(T_, K_, V_, H_, BT_) == RetDims(T_, K_, V_, H_, 0, RetBwdBT, 1)
chunk_bwd_dqkv_fn_dims(T_, K_, V_, H_) == RetDims(T_, K_, V_, H_, 0, RetBwdBT, 1)

\* the cells touched without boundary_check: the whole block
Block_unchecked(op_, kernel_, task_, i_t_, i_c_, step_, buf_, slab_, row0, R, C, r, c, br, bc) ==
    [op |-> op_, kernel |-> kernel_, task |-> task_, i_t |-> i_t_, i_c |-> i_c_,
     step |-> step_, buf |-> buf_, slab |-> slab_,
     r0 |-> row0 + r, r1 |-> row0 + r + br,
     c0 |-> c, c1 |-> c + bc]

\* the cells tl.load / tl.store touch through
\*   tl.make_block_ptr(buf + slab * stride + row0 rows, (R, C), ..., (r, c), (br, bc))
\* with boundary_check = (0, 1): rows r0 .. r1 - 1 and columns c0 .. c1 - 1 of
\* the slab, rows being the buffer's time (or state-row) axis whichever way the
\* view is declared, and no cell at all if the block starts beyond the shape.
\* i_t and i_c are the chunk and sub-tile of the loop iteration (-1 outside the
\* loops), step counts the program's iterations.
Block(op_, kernel_, task_, i_t_, i_c_, step_, buf_, slab_, row0, R, C, r, c, br, bc) ==
    [op |-> op_, kernel |-> kernel_, task |-> task_, i_t |-> i_t_, i_c |-> i_c_,
     step |-> step_, buf |-> buf_, slab |-> slab_,
     r0 |-> row0 + r, r1 |-> row0 + Max(r, Min(r + br, R)),
     c0 |-> c, c1 |-> Max(c, Min(c + bc, C))]

chunk_retention_fwd_kernel_h_blocks(D, USE_INITIAL_STATE, STORE_FINAL_STATE, i_k, i_v, ibh) ==
    LET n == "chunk_retention_fwd_kernel_h"
        t == <<i_k, i_v, ibh>>
    IN  (IF USE_INITIAL_STATE
         THEN {Block("load", n, t, -1, -1, 0, "h0", ibh, 0, D.K, D.V, i_k * D.BK, i_v * D.BV, D.BK, D.BV)}
         ELSE {})
        \cup UNION {
           {Block("store", n, t, i_t, -1, i_t, "h", ibh, i_t * D.K, D.K, D.V, i_k * D.BK, i_v * D.BV, D.BK, D.BV),
            Block("load", n, t, i_t, -1, i_t, "k", ibh, 0, D.T, D.K, i_t * D.BT, i_k * D.BK, D.BT, D.BK),
            Block("load", n, t, i_t, -1, i_t, "v", ibh, 0, D.T, D.V, i_t * D.BT, i_v * D.BV, D.BT, D.BV)}
           : i_t \in 0 .. D.NT - 1}
        \cup (IF STORE_FINAL_STATE
              THEN {Block("store", n, t, -1, -1, D.NT, "ht", ibh, 0, D.K, D.V, i_k * D.BK, i_v * D.BV, D.BK, D.BV)}
              ELSE {})

chunk_retention_fwd_kernel_o_blocks(D, i_v, i_t, ibh) ==
    LET n == "chunk_retention_fwd_kernel_o"
        t == <<i_v, i_t, ibh>>
    IN  UNION {
           {Block("load", n, t, i_t, -1, i_k, "q", ibh, 0, D.T, D.K, i_t * D.BT, i_k * D.BK, D.BT, D.BK),
            Block("load", n, t, i_t, -1, i_k, "k", ibh, 0, D.T, D.K, i_t * D.BT, i_k * D.BK, D.BT, D.BK),
            Block("load", n, t, i_t, -1, i_k, "h", ibh, i_t * D.K, D.K, D.V, i_k * D.BK, i_v * D.BV, D.BK, D.BV)}
           : i_k \in 0 .. Cdiv(D.K, D.BK) - 1}
        \cup {Block("load", n, t, i_t, -1, 0, "v", ibh, 0, D.T, D.V, i_t * D.BT, i_v * D.BV, D.BT, D.BV),
              Block("store", n, t, i_t, -1, 0, "o", ibh, 0, D.T, D.V, i_t * D.BT, i_v * D.BV, D.BT, D.BV)}

chunk_retention_bwd_kernel_dh_blocks(D, STORE_INITIAL_STATE_GRADIENT, USE_FINAL_STATE_GRADIENT, i_k, i_v, ibh) ==
    LET n == "chunk_retention_bwd_kernel_dh"
        t == <<i_k, i_v, ibh>>
    IN  (IF USE_FINAL_STATE_GRADIENT
         THEN {Block("load", n, t, -1, -1, 0, "dht", ibh, 0, D.K, D.V, i_k * D.BK, i_v * D.BV, D.BK, D.BV)}
         ELSE {})
        \cup UNION {
           {Block("store", n, t, i_t, -1, D.NT - 1 - i_t, "dh", ibh, i_t * D.K, D.K, D.V, i_k * D.BK, i_v * D.BV, D.BK, D.BV),
            Block("load", n, t, i_t, -1, D.NT - 1 - i_t, "q", ibh, 0, D.T, D.K, i_t * D.BT, i_k * D.BK, D.BT, D.BK),
            Block("load", n, t, i_t, -1, D.NT - 1 - i_t, "do", ibh, 0, D.T, D.V, i_t * D.BT, i_v * D.BV, D.BT, D.BV)}
           : i_t \in 0 .. D.NT - 1}
        \cup (IF STORE_INITIAL_STATE_GRADIENT
              THEN {Block("store", n, t, -1, -1, D.NT, "dh0", ibh, 0, D.K, D.V, i_k * D.BK, i_v * D.BV, D.BK, D.BV)}
              ELSE {})

\* the partial-gradient slab program (i_k, ., i_bh) stores dv into, of the
\* n_bh * NK slabs chunk_bwd_dqkv_fn allocates
chunk_retention_bwd_kernel_dqkv_dv_slab_shared(i_k, n_bh, ibh) == ibh

chunk_retention_bwd_kernel_dqkv_dv_slab(i_k, n_bh, ibh) == i_k * n_bh + ibh

\* h and dh are addressed as one (NT * K) x V matrix per batch-head
chunk_retention_bwd_kernel_dqkv_blocks(D, n_bh, i_k, i_t, ibh) ==
    LET n == "chunk_retention_bwd_kernel_dqkv"
        t == <<i_k, i_t, ibh>>
    IN  {Block("load", n, t, i_t, -1, 0, "q", ibh, 0, D.T, D.K, i_t * D.BT, i_k * D.BK, D.BT, D.BK),
         Block("load", n, t, i_t, -1, 0, "k", ibh, 0, D.T, D.K, i_t * D.BT, i_k * D.BK, D.BT, D.BK)}
        \cup UNION {
           {Block("load", n, t, i_t, -1, i_v, "v", ibh, 0, D.T, D.V, i_t * D.BT, i_v * D.BV, D.BT, D.BV),
            Block("load", n, t, i_t, -1, i_v, "h", ibh, 0, D.NT * D.K, D.V, i_t * D.K + i_k * D.BK, i_v * D.BV, D.BK, D.BV),
            Block("load", n, t, i_t, -1, i_v, "do", ibh, 0, D.T, D.V, i_t * D.BT, i_v * D.BV, D.BT, D.BV),
            Block("load", n, t, i_t, -1, i_v, "dh", ibh, 0, D.NT * D.K, D.V, i_t * D.K + i_k * D.BK, i_v * D.BV, D.BK, D.BV),
            Block("store", n, t, i_t, -1, i_v, "dv", chunk_retention_bwd_kernel_dqkv_dv_slab(i_k, n_bh, ibh),
                  0, D.T, D.V, i_t * D.BT, i_v * D.BV, D.BT, D.BV)}
           : i_v \in 0 .. Cdiv(D.V, D.BV) - 1}
        \cup {Block("store", n, t, i_t, -1, D.NV, "dq", ibh, 0, D.T, D.K, i_t * D.BT, i_k * D.BK, D.BT, D.BK),
              Block("store", n, t, i_t, -1, D.NV, "dk", ibh, 0, D.T, D.K, i_t * D.BT, i_k * D.BK, D.BT, D.BK)}

\* the sub-tiles of a chunk, cdiv(BT, BC) of them
SubTiles(D) == 0 .. Cdiv(D.BT, D.BC) - 1

\* k, v, d of the kernel are the host's k, u, w
chunk_delta_rule_fwd_kernel_h_blocks(D, USE_INITIAL_STATE, STORE_FINAL_STATE, i_k, i_v, ibh) ==
    LET n == "chunk_delta_rule_fwd_kernel_h"
        t == <<i_k, i_v, ibh>>
        NC == Cdiv(D.BT, D.BC)
    IN  (IF USE_INITIAL_STATE
         THEN {Block("load", n, t, -1, -1, 0, "h0", ibh, 0, D.K, D.V, i_k * D.BK, i_v * D.BV, D.BK, D.BV)}
         ELSE {})
        \cup {Block("store", n, t, i_t, -1, i_t * NC, "h", ibh, i_t * D.K, D.K, D.V, i_k * D.BK, i_v * D.BV, D.BK, D.BV)
              : i_t \in 0 .. D.NT - 1}
        \cup UNION {
           {Block("load", n, t, x[1], x[2], x[1] * NC + x[2], "k", ibh, 0, D.T, D.K,
                  x[1] * D.BT + x[2] * D.BC, i_k * D.BK, D.BC, D.BK),
            Block("load", n, t, x[1], x[2], x[1] * NC + x[2], "w", ibh, 0, D.T, D.K,
                  x[1] * D.BT + x[2] * D.BC, i_k * D.BK, D.BC, D.BK),
            Block("load", n, t, x[1], x[2], x[1] * NC + x[2], "u", ibh, 0, D.T, D.V,
                  x[1] * D.BT + x[2] * D.BC, i_v * D.BV, D.BC, D.BV),
            Block("store", n, t, x[1], x[2], x[1] * NC + x[2], "v_new", ibh, 0, D.T, D.V,
                  x[1] * D.BT + x[2] * D.BC, i_v * D.BV, D.BC, D.BV)}
           : x \in (0 .. D.NT - 1) \X SubTiles(D)}
        \cup (IF STORE_FINAL_STATE
              THEN {Block("store", n, t, -1, -1, D.NT * NC, "ht", ibh, 0, D.K, D.V, i_k * D.BK, i_v * D.BV, D.BK, D.BV)}
              ELSE {})

\* v of the kernel is the host's v_new
chunk_delta_rule_fwd_kernel_o_blocks(D, i_v, i_t, ibh) ==
    LET n == "chunk_delta_rule_fwd_kernel_o"
        t == <<i_v, i_t, ibh>>
    IN  UNION {
           {Block("load", n, t, i_t, -1, i_k, "q", ibh, 0, D.T, D.K, i_t * D.BT, i_k * D.BK, D.BT, D.BK),
            Block("load", n, t, i_t, -1, i_k, "k", ibh, 0, D.T, D.K, i_t * D.BT, i_k * D.BK, D.BT, D.BK),
            Block("load", n, t, i_t, -1, i_k, "h", ibh, i_t * D.K, D.K, D.V, i_k * D.BK, i_v * D.BV, D.BK, D.BV)}
           : i_k \in 0 .. Cdiv(D.K, D.BK) - 1}
        \cup {Block("load", n, t, i_t, -1, 0, "v_new", ibh, 0, D.T, D.V, i_t * D.BT, i_v * D.BV, D.BT, D.BV),
              Block("store", n, t, i_t, -1, 0, "o", ibh, 0, D.T, D.V, i_t * D.BT, i_v * D.BV, D.BT, D.BV)}

chunk_delta_rule_fwd_kernel_prepare_dv_blocks(D, i_t, ibh) ==
    LET n == "chunk_delta_rule_fwd_kernel_prepare_dv"
        t == <<i_t, ibh>>
    IN  UNION {
           {Block("load", n, t, i_t, -1, i_k, "q", ibh, 0, D.T, D.K, i_t * D.BT, i_k * D.BK, D.BT, D.BK),
            Block("load", n, t, i_t, -1, i_k, "k", ibh, 0, D.T, D.K, i_t * D.BT, i_k * D.BK, D.BT, D.BK)}
           : i_k \in 0 .. Cdiv(D.K, D.BK) - 1}
        \cup UNION {
           {Block("load", n, t, i_t, -1, i_v, "do", ibh, 0, D.T, D.V, i_t * D.BT, i_v * D.BV, D.BT, D.BV),
            Block("store", n, t, i_t, -1, i_v, "dv", ibh, 0, D.T, D.V, i_t * D.BT, i_v * D.BV, D.BT, D.BV)}
           : i_v \in 0 .. Cdiv(D.V, D.BV) - 1}

\* d of the kernel is the host's w; STORE_FINAL_STATE is "dht is given",
\* USE_INITIAL_STATE is "dh0 is given"
chunk_delta_rule_bwd_kernel_dhu_blocks(D, STORE_FINAL_STATE, USE_INITIAL_STATE, i_k, i_v, ibh) ==
    LET n == "chunk_delta_rule_bwd_kernel_dhu"
        t == <<i_k, i_v, ibh>>
        NC == Cdiv(D.BT, D.BC)
        at(i_t, i_c) == (D.NT - 1 - i_t) * NC + (NC - 1 - i_c)
    IN  (IF STORE_FINAL_STATE
         THEN {Block("load", n, t, -1, -1, 0, "dht", ibh, 0, D.K, D.V, i_k * D.BK, i_v * D.BV, D.BK, D.BV)}
         ELSE {})
        \cup {Block("store", n, t, i_t, -1, at(i_t, NC - 1), "dh", ibh, i_t * D.K, D.K, D.V,
                    i_k * D.BK, i_v * D.BV, D.BK, D.BV)
              : i_t \in 0 .. D.NT - 1}
        \cup UNION {
           {Block("load", n, t, x[1], x[2], at(x[1], x[2]), "q", ibh, 0, D.T, D.K,
                  x[1] * D.BT + x[2] * D.BC, i_k * D.BK, D.BC, D.BK),
            Block("load", n, t, x[1], x[2], at(x[1], x[2]), "k", ibh, 0, D.T, D.K,
                  x[1] * D.BT + x[2] * D.BC, i_k * D.BK, D.BC, D.BK),
            Block("load", n, t, x[1], x[2], at(x[1], x[2]), "w", ibh, 0, D.T, D.K,
                  x[1] * D.BT + x[2] * D.BC, i_k * D.BK, D.BC, D.BK),
            Block("load", n, t, x[1], x[2], at(x[1], x[2]), "dv", ibh, 0, D.T, D.V,
                  x[1] * D.BT + x[2] * D.BC, i_v * D.BV, D.BC, D.BV),
            Block("load", n, t, x[1], x[2], at(x[1], x[2]), "do", ibh, 0, D.T, D.V,
                  x[1] * D.BT + x[2] * D.BC, i_v * D.BV, D.BC, D.BV),
            Block("store", n, t, x[1], x[2], at(x[1], x[2]), "dv2", ibh, 0, D.T, D.V,
                  x[1] * D.BT + x[2] * D.BC, i_v * D.BV, D.BC, D.BV)}
           : x \in (0 .. D.NT - 1) \X SubTiles(D)}
        \cup (IF USE_INITIAL_STATE
              THEN {Block("store", n, t, -1, -1, D.NT * NC, "dh0", ibh, 0, D.K, D.V, i_k * D.BK, i_v * D.BV, D.BK, D.BV)}
              ELSE {})

\* v, dv of the kernel are the host's v_new, du; h and dh are addressed as
\* one (NT * K) x V matrix per batch-head
chunk_delta_rule_bwd_kernel_dqkw_blocks(D, i_k, i_t, ibh) ==
    LET n == "chunk_delta_rule_bwd_kernel_dqkw"
        t == <<i_k, i_t, ibh>>
    IN  UNION {
           {Block("load", n, t, i_t, -1, i_v, "v_new", ibh, 0, D.T, D.V, i_t * D.BT, i_v * D.BV, D.BT, D.BV),
            Block("load", n, t, i_t, -1, i_v, "h", ibh, 0, D.NT * D.K, D.V, i_t * D.K + i_k * D.BK, i_v * D.BV, D.BK, D.BV),
            Block("load", n, t, i_t, -1, i_v, "dh", ibh, 0, D.NT * D.K, D.V, i_t * D.K + i_k * D.BK, i_v * D.BV, D.BK, D.BV),
            Block("load", n, t, i_t, -1, i_v, "do", ibh, 0, D.T, D.V, i_t * D.BT, i_v * D.BV, D.BT, D.BV),
            Block("load", n, t, i_t, -1, i_v, "dv2", ibh, 0, D.T, D.V, i_t * D.BT, i_v * D.BV, D.BT, D.BV)}
           : i_v \in 0 .. Cdiv(D.V, D.BV) - 1}
        \cup {Block("load", n, t, i_t, -1, D.NV, "q", ibh, 0, D.T, D.K, i_t * D.BT, i_k * D.BK, D.BT, D.BK),
              Block("load", n, t, i_t, -1, D.NV, "k", ibh, 0, D.T, D.K, i_t * D.BT, i_k * D.BK, D.BT, D.BK),
              Block("store", n, t, i_t, -1, D.NV, "dq", ibh, 0, D.T, D.K, i_t * D.BT, i_k * D.BK, D.BT, D.BK),
              Block("store", n, t, i_t, -1, D.NV, "dk", ibh, 0, D.T, D.K, i_t * D.BT, i_k * D.BK, D.BT, D.BK),
              Block("store", n, t, i_t, -1, D.NV, "dw", ibh, 0, D.T, D.K, i_t * D.BT, i_k * D.BK, D.BT, D.BK)}

-----------------------------------------------------------------------------
(* The grid machine.                                                       *)

\* most programs in one grid
MaxGridTasks == 6

GridTs == {40, 64, 100}
GridKs == {3, 64, 65, 129}
GridVs == {3, 64, 65}
\* chunk sizes an engine function is called with; the state engine of the
\* delta rule, whose kernel has no block of BT rows, also with 96
GridBTs == {32, 64}
GridBTsStateEngine == {32, 64, 96}
GridEntries == {"retention", "delta", "chunk_delta_rule_fwd_h_fn"}

\* the launch arguments host function fn computes for call c
GridDims(c, fn) ==
    CASE fn = "chunk_fwd_h_fn" -> chunk_fwd_h_fn_dims(c.T, c.K, c.V, c.n_bh, c.BT)
      [] fn = "chunk_fwd_o_fn" -> chunk_fwd_o_fn_dims(c.T, c.K, c.V, c.n_bh, c.BT)
      [] fn = "chunk_bwd_dh_fn" -> chunk_bwd_dh_fn_dims(c.T, c.K, c.V, c.n_bh, c.BT)
      [] fn = "chunk_bwd_dqkv_fn" -> chunk_bwd_dqkv_fn_dims(c.T, c.K, c.V, c.n_bh)
      [] fn = "chunk_delta_rule_fwd_h_fn" -> chunk_delta_rule_fwd_h_fn_dims(c.T, c.K, c.V, c.BT, c.cap)
      [] fn = "chunk_delta_rule_fwd_o_fn" -> DeltaDims(c.T, c.K, c.V, c.BT, 1)
      [] fn = "chunk_delta_rule_fwd_prepare_dv" -> DeltaDims(c.T, c.K, c.V, c.BT, 1)
      [] fn = "chunk_delta_rule_bwd_dhu_fn" -> chunk_delta_rule_bwd_dhu_fn_dims(c.T, c.K, c.V, c.BT, 1, c.cap)
      [] fn = "chunk_delta_rule_bwd_dqkw_fn" -> DeltaDims(c.T, c.K, c.V, c.BT, 1)

\* grid = (NK, NV, B * H), (NV, NT, B * H), (NK, NT, B * H) or (NT, B * H)
GridPrograms(c, fn) ==
    LET D == GridDims(c, fn)
        bh == 0 .. c.n_bh - 1
    IN  CASE fn \in {"chunk_fwd_h_fn", "chunk_bwd_dh_fn", "chunk_delta_rule_fwd_h_fn",
                     "chunk_delta_rule_bwd_dhu_fn"} ->
                 (0 .. D.NK - 1) \X (0 .. D.NV - 1) \X bh
          [] fn \in {"chunk_fwd_o_fn", "chunk_delta_rule_fwd_o_fn"} ->
                 (0 .. D.NV - 1) \X (0 .. D.NT - 1) \X bh
          [] fn \in {"chunk_bwd_dqkv_fn", "chunk_delta_rule_bwd_dqkw_fn"} ->
                 (0 .. D.NK - 1) \X (0 .. D.NT - 1) \X bh
          [] fn = "chunk_delta_rule_fwd_prepare_dv" -> (0 .. D.NT - 1) \X bh

\* the engine functions in the order the variant calls them
GridEngine(entry) ==
    CASE entry = "retention" ->
             <<"chunk_fwd_h_fn", "chunk_fwd_o_fn", "chunk_bwd_dh_fn", "chunk_bwd_dqkv_fn">>
      [] entry = "delta" ->
             <<"chunk_delta_rule_fwd_h_fn", "chunk_delta_rule_fwd_o_fn",
               "chunk_delta_rule_fwd_prepare_dv", "chunk_delta_rule_bwd_dhu_fn",
               "chunk_delta_rule_bwd_dqkw_fn">>
      [] entry = "chunk_delta_rule_fwd_h_fn" -> <<"chunk_delta_rule_fwd_h_fn">>

GridCalls ==
    {c \in [entry : GridEntries, T : GridTs, K : GridKs, V : GridVs,
            BT : GridBTsStateEngine, n_bh : {1, 2}, state : BOOLEAN,
            cap : {Capabilities[i] : i \in DOMAIN Capabilities} \cup {None}] :
        /\ (c.entry = "retention") = (c.cap = None)
        /\ c.entry # "chunk_delta_rule_fwd_h_fn" => c.BT \in GridBTs
        /\ \A i \in DOMAIN GridEngine(c.entry) :
               Cardinality(GridPrograms(c, GridEngine(c.entry)[i])) <= MaxGridTasks}

\* the numeric and the driver machine stay idle
NumIdle ==
    /\ variant = None /\ T = None /\ K = None /\ V = None /\ H = None /\ i_bh = None
    /\ BT = None /\ scale = None /\ output_final_state = None /\ checkpoint_level = None
    /\ capability = None
    /\ q = None /\ k = None /\ v = None /\ beta = None /\ initial_state = None
    /\ do = None /\ dht = None
    /\ pc = None /\ lanes = None /\ pending = None
    /\ w = None /\ u = None /\ A = None /\ h = None /\ v_new = None
    /\ final_state = None /\ o = None /\ ctx = None
    /\ dv = None /\ dh = None /\ dh0 = None /\ dv2 = None /\ dq = None /\ dk = None
    /\ dw = None /\ dv_out = None /\ db = None
DrvIdle ==
    d_call = None /\ d_pc = None /\ d_launched = None /\ d_written = None /\ d_error = None

InitGrid ==
    /\ g_call \in GridCalls
    /\ g_pc = GridEngine(g_call.entry)[1]
    /\ g_dims = <<>>
    /\ g_pending = {}
    /\ g_acc = {}
    /\ NumIdle /\ DrvIdle /\ RateIdle

offgrid == <<callvars, invars, pc, lanes, pending, fwdbufs, ctx, bwdbufs, drvvars, ratevars>>

\* the engine function called after fn, or what ends the call
GridAfter(fn) ==
    LET e == GridEngine(g_call.entry)
        i == CHOOSE j \in DOMAIN e : e[j] = fn
    IN  IF i < Len(e) THEN e[i + 1]
        ELSE IF fn = "chunk_bwd_dqkv_fn" THEN "dv.sum" ELSE "done"

\* a host function computes its launch arguments, allocates and launches
GridLaunch(fn, kernel) ==
    /\ g_pc = fn
    /\ g_dims' = g_dims @@ (fn :> GridDims(g_call, fn))
    /\ g_pending' = GridPrograms(g_call, fn)
    /\ g_pc' = kernel
    /\ UNCHANGED <<g_call, g_acc, offgrid>>

\* program t of the running grid runs to its end, touching blocks
GridRun(fn, kernel, t, blocks) ==
    /\ g_pc = kernel
    /\ g_acc' = g_acc \cup blocks
    /\ g_pending' = g_pending \ {t}
    /\ g_pc' = IF g_pending = {t} THEN GridAfter(fn) ELSE kernel
    /\ UNCHANGED <<g_call, g_dims, offgrid>>

G_chunk_fwd_h_fn == GridLaunch("chunk_fwd_h_fn", "chunk_retention_fwd_kernel_h")
G_chunk_retention_fwd_kernel_h ==
    \E t \in g_pending :
        GridRun("chunk_fwd_h_fn", "chunk_retention_fwd_kernel_h", t,
                chunk_retention_fwd_kernel_h_blocks(g_dims["chunk_fwd_h_fn"], g_call.state, g_call.state, t[1], t[2], t[3]))

G_chunk_fwd_o_fn == GridLaunch("chunk_fwd_o_fn", "chunk_retention_fwd_kernel_o")
G_chunk_retention_fwd_kernel_o ==
    \E t \in g_pending :
        GridRun("chunk_fwd_o_fn", "chunk_retention_fwd_kernel_o", t,
                chunk_retention_fwd_kernel_o_blocks(g_dims["chunk_fwd_o_fn"], t[1], t[2], t[3]))

G_chunk_bwd_dh_fn == GridLaunch("chunk_bwd_dh_fn", "chunk_retention_bwd_kernel_dh")
G_chunk_retention_bwd_kernel_dh ==
    \E t \in g_pending :
        GridRun("chunk_bwd_dh_fn", "chunk_retention_bwd_kernel_dh", t,
                chunk_retention_bwd_kernel_dh_blocks(g_dims["chunk_bwd_dh_fn"], g_call.state, g_call.state, t[1], t[2], t[3]))

G_chunk_bwd_dqkv_fn == GridLaunch("chunk_bwd_dqkv_fn", "chunk_retention_bwd_kernel_dqkv")
G_chunk_retention_bwd_kernel_dqkv ==
    \E t \in g_pending :
        GridRun("chunk_bwd_dqkv_fn", "chunk_retention_bwd_kernel_dqkv", t,
                chunk_retention_bwd_kernel_dqkv_blocks(g_dims["chunk_bwd_dqkv_fn"], g_call.n_bh, t[1], t[2], t[3]))

\* dv = dv.sum(0): the NK partial slabs of every batch-head are added up
G_chunk_bwd_dqkv_fn_sum ==
    /\ g_pc = "dv.sum"
    /\ LET D == g_dims["chunk_bwd_dqkv_fn"]
       IN  g_acc' = g_acc
               \cup {Block("load", "dv.sum", <<x[2]>>, -1, -1, x[1], "dv", x[1] * g_call.n_bh + x[2],
                           0, D.T, D.V, 0, 0, D.T, D.V)
                     : x \in (0 .. D.NK - 1) \X (0 .. g_call.n_bh - 1)}
               \cup {Block("store", "dv.sum", <<ibh>>, -1, -1, D.NK, "dv.sum(0)", ibh,
                           0, D.T, D.V, 0, 0, D.T, D.V)
                     : ibh \in 0 .. g_call.n_bh - 1}
    /\ g_pc' = "done"
    /\ UNCHANGED <<g_call, g_dims, g_pending, offgrid>>

G_chunk_delta_rule_fwd_h_fn == GridLaunch("chunk_delta_rule_fwd_h_fn", "chunk_delta_rule_fwd_kernel_h")
G_chunk_delta_rule_fwd_kernel_h ==
    \E t \in g_pending :
        GridRun("chunk_delta_rule_fwd_h_fn", "chunk_delta_rule_fwd_kernel_h", t,
                chunk_delta_rule_fwd_kernel_h_blocks(g_dims["chunk_delta_rule_fwd_h_fn"], g_call.state, g_call.state, t[1], t[2], t[3]))

G_chunk_delta_rule_fwd_o_fn == GridLaunch("chunk_delta_rule_fwd_o_fn", "chunk_delta_rule_fwd_kernel_o")
G_chunk_delta_rule_fwd_kernel_o ==
    \E t \in g_pending :
        GridRun("chunk_delta_rule_fwd_o_fn", "chunk_delta_rule_fwd_kernel_o", t,
                chunk_delta_rule_fwd_kernel_o_blocks(g_dims["chunk_delta_rule_fwd_o_fn"], t[1], t[2], t[3]))

G_chunk_delta_rule_fwd_prepare_dv ==
    GridLaunch("chunk_delta_rule_fwd_prepare_dv", "chunk_delta_rule_fwd_kernel_prepare_dv")
G_chunk_delta_rule_fwd_kernel_prepare_dv ==
    \E t \in g_pending :
        GridRun("chunk_delta_rule_fwd_prepare_dv", "chunk_delta_rule_fwd_kernel_prepare_dv", t,
                chunk_delta_rule_fwd_kernel_prepare_dv_blocks(g_dims["chunk_delta_rule_fwd_prepare_dv"], t[1], t[2]))

G_chunk_delta_rule_bwd_dhu_fn == GridLaunch("chunk_delta_rule_bwd_dhu_fn", "chunk_delta_rule_bwd_kernel_dhu")
G_chunk_delta_rule_bwd_kernel_dhu ==
    \E t \in g_pending :
        GridRun("chunk_delta_rule_bwd_dhu_fn", "chunk_delta_rule_bwd_kernel_dhu", t,
                chunk_delta_rule_bwd_kernel_dhu_blocks(g_dims["chunk_delta_rule_bwd_dhu_fn"], g_call.state, g_call.state, t[1], t[2], t[3]))

G_chunk_delta_rule_bwd_dqkw_fn == GridLaunch("chunk_delta_rule_bwd_dqkw_fn", "chunk_delta_rule_bwd_kernel_dqkw")
G_chunk_delta_rule_bwd_kernel_dqkw ==
    \E t \in g_pending :
        GridRun("chunk_delta_rule_bwd_dqkw_fn", "chunk_delta_rule_bwd_kernel_dqkw", t,
                chunk_delta_rule_bwd_kernel_dqkw_blocks(g_dims["chunk_delta_rule_bwd_dqkw_fn"], t[1], t[2], t[3]))

NextGrid ==
    \/ G_chunk_fwd_h_fn \/ G_chunk_retention_fwd_kernel_h
    \/ G_chunk_fwd_o_fn \/ G_chunk_retention_fwd_kernel_o
    \/ G_chunk_bwd_dh_fn \/ G_chunk_retention_bwd_kernel_dh
    \/ G_chunk_bwd_dqkv_fn \/ G_chunk_retention_bwd_kernel_dqkv
    \/ G_chunk_bwd_dqkv_fn_sum
    \/ G_chunk_delta_rule_fwd_h_fn \/ G_chunk_delta_rule_fwd_kernel_h
    \/ G_chunk_delta_rule_fwd_o_fn \/ G_chunk_delta_rule_fwd_kernel_o
    \/ G_chunk_delta_rule_fwd_prepare_dv \/ G_chunk_delta_rule_fwd_kernel_prepare_dv
    \/ G_chunk_delta_rule_bwd_dhu_fn \/ G_chunk_delta_rule_bwd_kernel_dhu
    \/ G_chunk_delta_rule_bwd_dqkw_fn \/ G_chunk_delta_rule_bwd_kernel_dqkw

SpecGrid == InitGrid /\ [][NextGrid]_vars

-----------------------------------------------------------------------------
(* Claims about the kernel grids.                                          *)

\* host function fn has launched its kernel / all programs of it have run
Launched(fn) == fn \in DOMAIN g_dims
Finished(fn, kernel) == Launched(fn) /\ g_pc # kernel
Stores(kernel, buf) == {b \in g_acc : b.op = "store" /\ b.kernel = kernel /\ b.buf = buf}
Loads(kernel, buf) == {b \in g_acc : b.op = "load" /\ b.kernel = kernel /\ b.buf = buf}
\* the snapshot rows a state engine has stored: program, chunk, rows
Snapshots(kernel, buf) == {<<b.task, b.i_t, b.r0, b.r1>> : b \in Stores(kernel, buf)}

\* C12: chunk count follows the chunk size given. Every engine function called
\* with chunk size BT launches with that BT and NT = cdiv(T, BT) chunks, and
\* once the backward state engine has run, the state gradients dh have the same
\* chunks, with the same boundaries, as the snapshots h of the forward state
\* engine that was called with the same BT.
C12_ChunkCountFollowsChunkSize ==
    /\ \A fn \in DOMAIN g_dims :
           g_dims[fn].BT = g_call.BT /\ g_dims[fn].NT = Cdiv(g_call.T, g_call.BT)
    /\ Finished("chunk_bwd_dh_fn", "chunk_retention_bwd_kernel_dh") =>
           Snapshots("chunk_retention_bwd_kernel_dh", "dh")
               = Snapshots("chunk_retention_fwd_kernel_h", "h")
    /\ Finished("chunk_delta_rule_bwd_dhu_fn", "chunk_delta_rule_bwd_kernel_dhu") =>
           Snapshots("chunk_delta_rule_bwd_kernel_dhu", "dh")
               = Snapshots("chunk_delta_rule_fwd_kernel_h", "h")

\* two blocks share a cell
Overlap(a, b) ==
    /\ a.buf = b.buf /\ a.slab = b.slab
    /\ a.r0 < b.r1 /\ b.r0 < a.r1
    /\ a.c0 < b.c1 /\ b.c0 < a.c1

\* the tensors the host functions allocate or are given: slabs (batch-heads,
\* times K-tiles for the partial dv of retention), rows and columns
Tensor(buf) ==
    LET c == g_call
        state_fn == IF c.entry = "retention" THEN "chunk_fwd_h_fn" ELSE "chunk_delta_rule_fwd_h_fn"
        grad_fn == IF c.entry = "retention" THEN "chunk_bwd_dh_fn" ELSE "chunk_delta_rule_bwd_dhu_fn"
    IN  CASE buf = "h" -> [slabs |-> c.n_bh, rows |-> g_dims[state_fn].NT * c.K, cols |-> c.V]
          [] buf = "dh" -> [slabs |-> c.n_bh, rows |-> g_dims[grad_fn].NT * c.K, cols |-> c.V]
          [] buf \in {"h0", "ht", "dht", "dh0"} -> [slabs |-> c.n_bh, rows |-> c.K, cols |-> c.V]
          [] buf = "dv" /\ c.entry = "retention" ->
                 [slabs |-> g_dims["chunk_bwd_dqkv_fn"].NK * c.n_bh, rows |-> c.T, cols |-> c.V]
          [] buf \in {"q", "k", "w", "dq", "dk", "dw"} -> [slabs |-> c.n_bh, rows |-> c.T, cols |-> c.K]
          [] OTHER -> [slabs |-> c.n_bh, rows |-> c.T, cols |-> c.V]

RECURSIVE Area(_)
\* cells of a set of <<slab, r0, r1, c0, c1>> rectangles, overlaps counted twice
Area(S) ==
    IF S = {} THEN 0
    ELSE LET x == CHOOSE y \in S : TRUE
         IN  (x[3] - x[2]) * (x[5] - x[4]) + Area(S \ {x})

\* the buffers the kernels of an engine write
OutputBuffers ==
    (IF g_call.entry = "retention" THEN {"h", "o", "dh", "dv", "dq", "dk"}
     ELSE {"h", "v_new", "o", "dv", "dh", "dv2", "dq", "dk", "dw"})
    \cup (IF g_call.state THEN {"ht", "dh0"} ELSE {})

\* the cells of buf the kernels have stored into, as rectangles
Written(buf) ==
    {<<b.slab, b.r0, b.r1, b.c0, b.c1>> : b \in {a \in g_acc : a.op = "store" /\ a.buf = buf}}

\* the dv slabs the programs of chunk_retention_bwd_kernel_dqkv have stored into
DvSlabs == {b.slab : b \in Stores("chunk_retention_bwd_kernel_dqkv", "dv")}

\* all engine functions of a variant have been called and have finished
EngineDone == g_pc = "done" /\ g_call.entry \in {"retention", "delta"}

\* C16: single writer per cell. Whatever programs of a grid have run so far, in
\* whatever order, no two programs of one kernel have stored into the same cell
\* of a buffer and no program has loaded a cell another program of the same
\* kernel stores; when all engine functions have run, every cell of every
\* output buffer has been stored into; in the gradient engine of retention
\* every K-tile stores dv into a slab of its own, and dv.sum(0) reads every
\* slab, after the grid has finished.
C16_SingleWriter ==
    /\ \A a, b \in g_acc :
           ~(a.kernel = b.kernel /\ a.task # b.task /\ a.op = "store" /\ Overlap(a, b))
    /\ EngineDone =>
           \A buf \in OutputBuffers :
               Area(Written(buf)) = Tensor(buf).slabs * Tensor(buf).rows * Tensor(buf).cols
    /\ \A a, b \in Stores("chunk_retention_bwd_kernel_dqkv", "dv") :
           a.task[1] # b.task[1] => a.slab # b.slab
    /\ (EngineDone /\ g_call.entry = "retention") =>
           /\ DvSlabs = {b.slab : b \in Loads("dv.sum", "dv")}
           /\ Cardinality(DvSlabs) = g_dims["chunk_bwd_dqkv_fn"].NK * g_call.n_bh

\* several K-tiles have stored their partial dv of the same rows, and the
\* partials have been added up
C16_Witness ==
    /\ EngineDone /\ g_call.entry = "retention"
    /\ g_dims["chunk_bwd_dqkv_fn"].NK > 1
    /\ \E a, b \in Stores("chunk_retention_bwd_kernel_dqkv", "dv") :
           a.task[1] # b.task[1] /\ a.task[3] = b.task[3] /\ a.r0 = b.r0 /\ a.c0 = b.c0

\* the forward state engines
StateEngines == {"chunk_fwd_h_fn", "chunk_delta_rule_fwd_h_fn"}

Visits(kernel, buf) == {<<b.task, b.step, b.r0, b.r1>> : b \in Stores(kernel, buf)}

DeltaStateEnginesLaunched ==
    Launched("chunk_delta_rule_fwd_h_fn") /\ Launched("chunk_delta_rule_bwd_dhu_fn")
DeltaStateEnginesFinished ==
    /\ Finished("chunk_delta_rule_fwd_h_fn", "chunk_delta_rule_fwd_kernel_h")
    /\ Finished("chunk_delta_rule_bwd_dhu_fn", "chunk_delta_rule_bwd_kernel_dhu")

\* the n-th sub-tile a program of the forward kernel visits is the n-th last
\* one the same program of the backward kernel visits
ReverseOrder ==
    LET F == g_dims["chunk_delta_rule_fwd_h_fn"]
        last == F.NT * Cdiv(F.BT, F.BC) - 1
    IN  Visits("chunk_delta_rule_bwd_kernel_dhu", "dv2")
            = {<<x[1], last - x[2], x[3], x[4]>> : x \in Visits("chunk_delta_rule_fwd_kernel_h", "v_new")}

SubTileStores ==
    Stores("chunk_delta_rule_fwd_kernel_h", "v_new")
        \cup Stores("chunk_delta_rule_bwd_kernel_dhu", "dv2")

\* the rows of chunk i_t under the chunk size the kernel was launched with
ChunkLo(kernel_fn, i_t) == i_t * g_dims[kernel_fn].BT
ChunkHi(kernel_fn, i_t) == Min((i_t + 1) * g_dims[kernel_fn].BT, g_call.T)
HostOf(kernel) ==
    IF kernel = "chunk_delta_rule_fwd_kernel_h" THEN "chunk_delta_rule_fwd_h_fn"
    ELSE "chunk_delta_rule_bwd_dhu_fn"

\* C19: sub-tiles partition their chunk. For every BT and BC <= BT the state
\* kernels are launched with, the sub-tiles a program visits for chunk i_t lie
\* inside [i_t * BT, min((i_t + 1) * BT, T)), no position is visited (and its
\* corrected value or value gradient stored) twice, and when the kernel has
\* finished the sub-tiles of a program cover every position of every chunk.
C19_SubTilesPartitionChunk ==
    /\ \A b \in SubTileStores :
           b.r0 < b.r1 =>
               (ChunkLo(HostOf(b.kernel), b.i_t) <= b.r0 /\ b.r1 <= ChunkHi(HostOf(b.kernel), b.i_t))
    /\ \A a, b \in SubTileStores :
           (a.kernel = b.kernel /\ a.task = b.task /\ a.step # b.step) => ~Overlap(a, b)
    /\ Finished("chunk_delta_rule_fwd_h_fn", "chunk_delta_rule_fwd_kernel_h") =>
           \A r \in 0 .. g_call.T - 1 :
               \E b \in Stores("chunk_delta_rule_fwd_kernel_h", "v_new") : b.r0 <= r /\ r < b.r1


-----------------------------------------------------------------------------
(* The zero-beta boundary of the delta rule.                               *)

ZeroBeta == variant = "delta" /\ beta = Vec(T, LAMBDA i : 0)
\* the state engine and the output engine of forward() have finished
DeltaForwardFinished == pc = "dr_fwd_kernel_o" /\ pending = {}

\* plain linear attention: the state after the first n positions,
\* S = S + k[t]^T v[t] at every position
LinearAttentionState(n) ==
    IF n = 0 THEN State0
    ELSE MAdd(State0, Dot(Trans(RowsOf(k, 0, n)), RowsOf(v, 0, n)))

\* o[t] = scale * q[t] S, S the state after position t
LinearAttention ==
    Mat(T, V, LAMBDA t, c : Mul(scale, Dot(<<q[t + 1]>>, LinearAttentionState(t + 1))[1][c + 1]))

\* the state chunk i leaves: the next snapshot, or the final state
StateAfterChunk(i) ==
    IF i < Cdiv(T, BT) - 1 THEN RowsOf(h, (i + 1) * K, K) ELSE final_state

\* C13: zero-beta boundary of the delta rule. When beta is zero at every
\* position and the forward engines have finished, the corrected value stored
\* for every position is the raw value, every chunk's state update is the
\* addition H[i+1] = H[i] + K_i^T V_i (the state after the last chunk being the
\* final state, where one is returned), and the output is that of the plain
\* linear-attention recurrence S = S + k[t]^T v[t], o[t] = scale * q[t] S.
C13_ZeroBeta ==
    (ZeroBeta /\ DeltaForwardFinished) =>
        /\ w = Zeros(T, K) /\ u = v
        /\ v_new = v
        /\ RowsOf(h, 0, K) = State0
        /\ \A i \in 0 .. Cdiv(T, BT) - 1 :
               LET n == Min(BT, T - i * BT)
                   K_i == RowsOf(k, i * BT, n)
                   V_i == RowsOf(v, i * BT, n)
               IN  (i < Cdiv(T, BT) - 1 \/ output_final_state) =>
                       StateAfterChunk(i) = MAdd(RowsOf(h, i * K, K), Dot(Trans(K_i), V_i))
        /\ o = LinearAttention

\* the forward engines have finished a call with beta zero at three positions
\* in chunks of two, from a given initial state; the state grew in each chunk
C13_Witness ==
    /\ ZeroBeta /\ DeltaForwardFinished /\ T = 3 /\ BT = 2
    /\ initial_state # None /\ output_final_state
    /\ RowsOf(h, K, K) # RowsOf(h, 0, K)
    /\ final_state # RowsOf(h, K, K)

-----------------------------------------------------------------------------
(* The decay rate of the retention kernels in float32.                     *)
(* Every kernel computes b_b = log2(1 - exp2(-5 - i_h * 1.0)) with         *)
(* i_h = i_bh % H in float32; the rate is the argument of the logarithm.   *)
(* A rate in [1/2, 1] is held as its multiple of 2^-24, the spacing of     *)
(* float32 below 1.                                                        *)

\* 1.0 in units of 2^-24
Float32One == 2^24

\* float32(1 - 2^-e) for e >= 1, rounded to nearest, ties to even: exact while
\* 2^-e is a multiple of the unit; beyond that the difference lies between
\* 1 - 2^-24 and 1, d - 1 parts of d above the former with d = 2^e / 2^24
Float32OneMinusExp2(e) ==
    LET p == 2^e
    IN  IF Float32One % p = 0 THEN Float32One - Float32One \div p
        ELSE LET below == Float32One - 1
                 d == p \div Float32One
                 twice == 2 * (d - 1)
             IN  IF twice > d \/ (twice = d /\ below % 2 = 1) THEN below + 1 ELSE below

chunk_retention_fwd_kernel_h_rate(ibh, H_) == Float32OneMinusExp2(5 + (ibh % H_))
chunk_retention_fwd_kernel_o_rate(ibh, H_) == Float32OneMinusExp2(5 + (ibh % H_))
chunk_retention_bwd_kernel_dh_rate(ibh, H_) == Float32OneMinusExp2(5 + (ibh % H_))
\* the rate taken from the flattened batch-head index itself
chunk_retention_bwd_kernel_dqkv_rate_flat(ibh, H_) == Float32OneMinusExp2(5 + ibh)
chunk_retention_bwd_kernel_dqkv_rate(ibh, H_) == Float32OneMinusExp2(5 + (ibh % H_))

\* most heads and batches of a call
MaxRateHeads == 22
MaxRateBatches == 2

\* a call with H heads and B batches, and two batch-heads a <= b to look at
RateCalls ==
    {c \in [H : 1 .. MaxRateHeads, B : 1 .. MaxRateBatches,
            a : 0 .. MaxRateBatches * MaxRateHeads - 1,
            b : 0 .. MaxRateBatches * MaxRateHeads - 1] :
        c.a <= c.b /\ c.b < c.B * c.H}

InitRate ==
    /\ r_call \in RateCalls
    /\ r_rate = <<>>
    /\ NumIdle /\ DrvIdle /\ GridIdle

offrate == <<callvars, invars, pc, lanes, pending, fwdbufs, ctx, bwdbufs, drvvars, gridvars>>

\* the kernels in the order forward() and backward() launch them
RateKernels ==
    <<"chunk_retention_fwd_kernel_h", "chunk_retention_fwd_kernel_o",
      "chunk_retention_bwd_kernel_dh", "chunk_retention_bwd_kernel_dqkv">>

\* programs a and b of the kernel derive their rates
RateRun(kernel, rate_a, rate_b) ==
    /\ r_call # None
    /\ Len(r_rate) < Len(RateKernels)
    /\ RateKernels[Len(r_rate) + 1] = kernel
    /\ r_rate' = Append(r_rate, <<rate_a, rate_b>>)
    /\ UNCHANGED <<r_call, offrate>>

R_chunk_retention_fwd_kernel_h ==
    RateRun("chunk_retention_fwd_kernel_h",
            chunk_retention_fwd_kernel_h_rate(r_call.a, r_call.H),
            chunk_retention_fwd_kernel_h_rate(r_call.b, r_call.H))

R_chunk_retention_fwd_kernel_o ==
    RateRun("chunk_retention_fwd_kernel_o",
            chunk_retention_fwd_kernel_o_rate(r_call.a, r_call.H),
            chunk_retention_fwd_kernel_o_rate(r_call.b, r_call.H))

R_chunk_retention_bwd_kernel_dh ==
    RateRun("chunk_retention_bwd_kernel_dh",
            chunk_retention_bwd_kernel_dh_rate(r_call.a, r_call.H),
            chunk_retention_bwd_kernel_dh_rate(r_call.b, r_call.H))

R_chunk_retention_bwd_kernel_dqkv ==
    RateRun("chunk_retention_bwd_kernel_dqkv",
            chunk_retention_bwd_kernel_dqkv_rate(r_call.a, r_call.H),
            chunk_retention_bwd_kernel_dqkv_rate(r_call.b, r_call.H))

NextRate ==
    \/ R_chunk_retention_fwd_kernel_h
    \/ R_chunk_retention_fwd_kernel_o
    \/ R_chunk_retention_bwd_kernel_dh
    \/ R_chunk_retention_bwd_kernel_dqkv

SpecRate == InitRate /\ [][NextRate]_vars

\* the heads of the two batch-heads looked at
HeadA == r_call.a % r_call.H
HeadB == r_call.b % r_call.H
\* rate = 1 - 2^(-5 - i_h), as an equation between multiples of 2^-24
ExactRate(rate, i_h) == (Float32One - rate) * 2^(5 + i_h) = Float32One
\* 2^(-5 - i_h) is a multiple of 2^-24
BelowSaturation(i_h) == 2^(5 + i_h) <= Float32One

\* the kernels that have run agree, and batch-heads of one head have one rate
RateOfHeadOnly ==
    /\ \A i, j \in DOMAIN r_rate : r_rate[i] = r_rate[j]
    /\ \A i \in DOMAIN r_rate : HeadA = HeadB => r_rate[i][1] = r_rate[i][2]

\* C14 as stated: the rate is a function of the head index alone, the same in
\* all four kernels, it is 1 - 2^(-5-h) for every head h, and for heads h1 < h2
\* rate(h1) < rate(h2).
C14_StrictlyIncreasing ==
    r_call # None =>
        /\ RateOfHeadOnly
        /\ \A i \in DOMAIN r_rate :
               /\ ExactRate(r_rate[i][1], HeadA) /\ ExactRate(r_rate[i][2], HeadB)
               /\ HeadA < HeadB => r_rate[i][1] < r_rate[i][2]

\* C14: decay monotonicity of retention in the float32 the kernels compute in.
\* The rate is a function of the head index alone (the same for every batch and
\* in all four kernels); for heads h1 < h2, rate(h1) <= rate(h2); up to head 19
\* the rate is 1 - 2^(-5-h) and increases strictly; from head 20 on it is 1.
C14_DecayRates ==
    r_call # None =>
        /\ RateOfHeadOnly
        /\ \A i \in DOMAIN r_rate :
               LET rate_a == r_rate[i][1]
                   rate_b == r_rate[i][2]
               IN  /\ HeadA < HeadB => rate_a <= rate_b
                   /\ (HeadA < HeadB /\ BelowSaturation(HeadA)) => rate_a < rate_b
                   /\ BelowSaturation(HeadA) => ExactRate(rate_a, HeadA)
                   /\ BelowSaturation(HeadB) => ExactRate(rate_b, HeadB)
                   /\ ~BelowSaturation(HeadB) => rate_b = Float32One

\* all four kernels have run for the second batch of a call with 21 heads; the
\* batch-heads looked at are those of heads 19 and 20, the last head below
\* saturation and the first one at rate 1
C14_Witness ==
    /\ r_call # None /\ Len(r_rate) = Len(RateKernels)
    /\ r_call.H = 21 /\ r_call.B = 2 /\ r_call.a = 21 + 19 /\ r_call.b = 21 + 20
    /\ r_rate[4][1] = Float32One - 1 /\ r_rate[4][2] = Float32One

-----------------------------------------------------------------------------
(* What the entries of the state-gradient sequence are gradients of.       *)

\* the state-gradient engine of backward() has finished
StateGradientsWritten == pc \in {"ret_bwd_kernel_dh", "dr_bwd_kernel_dhu"} /\ AllDone

\* the part of L = sum(do * o) + sum(dht * final_state) that the chunks from j on
\* produce, as a function of the running state s entering chunk j; s is the
\* final state when j is the number of chunks
SuffixLoss(j, s) ==
    LET t0 == j * BT
        n == T - t0
        tail(M) == RowsOf(M, t0, n)
        r == IF variant = "retention"
             THEN ChunkRetentionForward(tail(q), tail(k), tail(v), s,
                                        RetDims(n, K, V, H, i_bh, BT, scale), output_final_state)
             ELSE DeltaCoreForward(tail(q), tail(k), tail(w), tail(u), s, output_final_state,
                                   n, K, V, BT, scale, capability)
    IN  IF n <= 0 THEN (IF dht # None THEN MDot(dht, s) ELSE 0)
        ELSE Then(r, Add(MDot(tail(do), r.o),
                         IF dht # None THEN MDot(dht, r.final_state) ELSE 0))

\* the running state entering chunk i: the stored snapshot H[i]
StateEntering(i) == RowsOf(h, i * K, K)
\* the running state leaving chunk i: the snapshot H[i+1], and after the last
\* chunk the final state (L is affine in it, so where none was stored the point
\* the difference is taken at is immaterial)
StateLeaving(i) ==
    IF i < Cdiv(T, BT) - 1 THEN RowsOf(h, (i + 1) * K, K)
    ELSE IF final_state # None THEN final_state ELSE Zeros(K, V)

\* C15 as stated: dH[i] is the gradient of the loss with respect to the running
\* state entering chunk i, the snapshot H[i] stored for the same index.
C15_GradientOfEnteringState ==
    StateGradientsWritten =>
        \A i \in 0 .. Cdiv(T, BT) - 1 :
            RowsOf(dh, i * K, K) = Partial(StateEntering(i), LAMBDA x : SuffixLoss(i, x))

\* C15: meaning of the state-gradient sequence. When the state-gradient engine
\* has finished, for every chunk index i the entry dH[i] is the gradient of the
\* loss with respect to the running state leaving chunk i, that is the snapshot
\* H[i+1] entering the next chunk and, for the last chunk, the final state (so
\* dH[NT-1] is the final-state gradient, zero if none was given); the gradient
\* with respect to the state entering chunk 0 is the initial-state gradient dh0.
C15_GradientOfLeavingState ==
    StateGradientsWritten =>
        /\ \A i \in 0 .. Cdiv(T, BT) - 1 :
               RowsOf(dh, i * K, K) = Partial(StateLeaving(i), LAMBDA x : SuffixLoss(i + 1, x))
        /\ RowsOf(dh, (Cdiv(T, BT) - 1) * K, K) = (IF dht # None THEN dht ELSE Zeros(K, V))
        /\ initial_state # None =>
               dh0 = Partial(StateEntering(0), LAMBDA x : SuffixLoss(0, x))

\* the state-gradient engine of the delta rule has finished three chunks of one
\* position each with a final-state gradient and an initial state; dH[0], dH[1]
\* and dH[2] differ, and dH[0] is not the initial-state gradient
C15_Witness ==
    /\ StateGradientsWritten /\ variant = "delta" /\ T = 3 /\ BT = 1
    /\ dht # None /\ initial_state # None
    /\ RowsOf(dh, 0, K) # RowsOf(dh, K, K)
    /\ RowsOf(dh, K, K) # RowsOf(dh, 2 * K, K)
    /\ RowsOf(dh, 0, K) # dh0

-----------------------------------------------------------------------------
(* Where the blocks of a program lie.                                      *)

\* the host function that launches a kernel
KernelHost(kernel) ==
    CASE kernel = "chunk_retention_fwd_kernel_h" -> "chunk_fwd_h_fn"
      [] kernel = "chunk_retention_fwd_kernel_o" -> "chunk_fwd_o_fn"
      [] kernel = "chunk_retention_bwd_kernel_dh" -> "chunk_bwd_dh_fn"
      [] kernel = "chunk_retention_bwd_kernel_dqkv" -> "chunk_bwd_dqkv_fn"
      [] kernel = "chunk_delta_rule_fwd_kernel_h" -> "chunk_delta_rule_fwd_h_fn"
      [] kernel = "chunk_delta_rule_fwd_kernel_o" -> "chunk_delta_rule_fwd_o_fn"
      [] kernel = "chunk_delta_rule_fwd_kernel_prepare_dv" -> "chunk_delta_rule_fwd_prepare_dv"
      [] kernel = "chunk_delta_rule_bwd_kernel_dhu" -> "chunk_delta_rule_bwd_dhu_fn"
      [] kernel = "chunk_delta_rule_bwd_kernel_dqkw" -> "chunk_delta_rule_bwd_dqkw_fn"

\* the gradient kernels, which read the snapshots h and dh of their chunk
GradientKernels == {"chunk_retention_bwd_kernel_dqkv", "chunk_delta_rule_bwd_kernel_dqkw"}

\* the blocks of kernel programs (dv.sum is a tensor operation of the host)
ProgramBlocks == {b \in g_acc : b.kernel # "dv.sum"}

\* the block touches a cell at all
NonEmpty(b) == b.r0 < b.r1 /\ b.c0 < b.c1

\* the block lies inside the tensor: rows below T (or NT * K, or K), columns
\* below K or V, the slab one of the tensor's
InTensor(b) ==
    LET t == Tensor(b.buf)
    IN  /\ 0 <= b.slab /\ b.slab < t.slabs
        /\ 0 <= b.r0 /\ b.r1 <= t.rows
        /\ 0 <= b.c0 /\ b.c1 <= t.cols

\* the slab is that of the program's batch-head (for the partial dv of
\* retention, the batch-head's slab of some K-tile)
OwnBatchHead(b) == b.slab % g_call.n_bh = b.task[Len(b.task)]

\* the rows a program addresses in iteration i_t: the chunk's positions in a
\* tensor over time, snapshot i_t in h and dh, all K rows of a single state
Region(b) ==
    LET D == g_dims[KernelHost(b.kernel)]
    IN  CASE b.buf \in {"h", "dh"} -> [lo |-> b.i_t * D.K, hi |-> (b.i_t + 1) * D.K]
          [] b.buf \in {"h0", "ht", "dht", "dh0"} -> [lo |-> 0, hi |-> D.K]
          [] OTHER -> [lo |-> b.i_t * D.BT, hi |-> Min((b.i_t + 1) * D.BT, D.T)]

InRegion(b) == Region(b).lo <= b.r0 /\ b.r1 <= Region(b).hi

\* a gradient program of the last K-tile, K not a multiple of BK, loads its BK
\* rows of h or dh from its own snapshot on: the tile's padding rows are rows
\* of the next snapshot
Overrun(b) ==
    LET D == g_dims[KernelHost(b.kernel)]
    IN  /\ b.op = "load" /\ b.buf \in {"h", "dh"} /\ b.kernel \in GradientKernels
        /\ D.K % D.BK # 0 /\ b.task[1] = D.NK - 1
        /\ Region(b).lo <= b.r0 /\ b.r0 < Region(b).hi
        /\ Region(b).hi < b.r1 /\ b.r1 <= b.r0 + D.BK

\* the kernel's sub-tiles, if it has any, divide its chunks (see C19)
SubTilesDivide(b) ==
    LET D == g_dims[KernelHost(b.kernel)]
    IN  "BC" \in DOMAIN D => D.BT % D.BC = 0

\* C20 as stated, for the blocks: every block a program loads or stores lies
\* inside the tensor and inside the program's own batch-head and chunk region.
C20_AllInsideRegion ==
    g_call # None =>
        \A b \in ProgramBlocks :
            NonEmpty(b) => (InTensor(b) /\ OwnBatchHead(b) /\ InRegion(b))

\* the footprint half of C20: every block lies inside its tensor and batch-head;
\* where the sub-tiles divide the chunk, every store lies inside the program's
\* region and so does every load, except the loads of h and dh by a gradient
\* program of a partial last K-tile
AccessesInBounds ==
    g_call # None =>
        \A b \in ProgramBlocks :
            NonEmpty(b) =>
                /\ InTensor(b) /\ OwnBatchHead(b)
                /\ SubTilesDivide(b) =>
                       /\ b.op = "store" => InRegion(b)
                       /\ b.op = "load" => (InRegion(b) \/ Overrun(b))

-----------------------------------------------------------------------------
(* In-bounds access: the footprints at full tile sizes, and at small sizes *)
(* the values a gradient program computes from what it loads.              *)

InitAccess == InitGrid \/ InitEdge
\* a behaviour is one of the grid machine or one of the numeric machine
NextAccess == (g_call # None /\ NextGrid) \/ (g_call = None /\ Next)
SpecAccess == InitAccess /\ [][NextAccess]_vars

\* the snapshot sequence M with every row outside snapshot i_t raised by one
Foreign(M, i_t) ==
    Mat(Rows(M), Cols(M), LAMBDA i, j :
        IF i >= i_t * K /\ i < (i_t + 1) * K THEN At(M, i, j) ELSE Add(At(M, i, j), 1))

\* the gradient programs that have run
GradientTasksRun ==
    IF g_call # None THEN {}
    ELSE IF pc = "ret_bwd_kernel_dqkv" THEN TasksKT(RD) \ pending
    ELSE IF pc = "dr_bwd_kernel_dqkw" THEN TasksKT(DD) \ pending
    ELSE {}

\* the numeric half of C20: what a gradient program has stored does not depend
\* on the rows of h and dh outside its own snapshot; run again on snapshot
\* sequences that differ in all those rows, it stores the same values
ForeignRowsNeverStored ==
    \A task \in GradientTasksRun :
        IF variant = "retention"
        THEN LET g == chunk_retention_bwd_kernel_dqkv(q, k, v, Foreign(h, task[2]), do,
                                                      Foreign(dh, task[2]), dq, dk, dv, RD,
                                                      task[1], task[2])
             IN  g.dq = dq /\ g.dk = dk /\ g.dv = dv
        ELSE LET g == chunk_delta_rule_bwd_kernel_dqkw(q, k, v_new, Foreign(h, task[2]), do,
                                                       Foreign(dh, task[2]), dq, dk, dv2, dw, DD,
                                                       task[1], task[2])
             IN  g.dq = dq /\ g.dk = dk /\ g.dw = dw

\* C20: in-bounds access. For all B, H, T, K, V, T a multiple of the chunk size
\* or not, K and V multiples of the tile size or not, every block a program of a
\* kernel grid loads or stores lies inside the tensor it addresses and in the
\* slab of the program's batch-head, so no row at or beyond T and no feature
\* index at or beyond K or V is loaded or stored. Where the sub-tiles divide the
\* chunk, every store lies inside the program's chunk (or snapshot), and so does
\* every load except one: a gradient program of a partial last K-tile loads,
\* with its rows of h and dh, rows of the next snapshot. What a gradient program
\* stores does not depend on those rows.
C20_InBoundsAccess == AccessesInBounds /\ ForeignRowsNeverStored

\* a delta-rule call with K = 65 has finished: the gradient program of the
\* second K-tile of chunk 0 has loaded rows of snapshot 1 with its rows of h,
\* and every store of the call lies inside its program's region
C20_Witness ==
    /\ g_call # None /\ g_call.entry = "delta" /\ g_pc = "done"
    /\ g_call.K = 65 /\ g_call.T = 100 /\ g_call.BT = 64
    /\ \E b \in Loads("chunk_delta_rule_bwd_kernel_dqkw", "h") :
           /\ Overrun(b) /\ b.i_t = 0 /\ b.task[1] = 1
           /\ b.r0 = 64 /\ b.r1 = 128
    /\ \A b \in ProgramBlocks : (NonEmpty(b) /\ b.op = "store") => InRegion(b)
=============================================================================
